---- MODULE Spec2Model ----
(***************************************************************************)
(* Graph-of-Operations execution engine (finance_workflows/local_got.py):  *)
(* Operation nodes with predecessor/successor lists and an executed flag,  *)
(* the GraphOfOperations bookkeeping (operations, roots, leaves) and the   *)
(* Controller's ready-queue scheduler.                                     *)
(*                                                                         *)
(* All MaxOps Operation objects are constructed in Init                    *)
(* (Operation.__init__: no edges, executed = False).  Operation objects    *)
(* are interchangeable, so they are named by registration order: operation *)
(* k is the k-th one registered with the graph, operations never           *)
(* registered come last.  Thought objects are represented by their id      *)
(* (Thought._ids, counting from 0).                                        *)
(***************************************************************************)
EXTENDS Integers, Sequences, FiniteSets, TLC

\* ------------------------------------------------------------------ bounds
MaxOps      == 2    \* Operation objects constructed
MaxEdges    == 2    \* edges in the graph (entries over all predecessor lists)
MaxThoughts == 3    \* Thought objects constructed (cap on Thought._ids)
MaxScore    == 1    \* scores are 0..MaxScore
MaxCopies   == 1    \* from_thought calls a client makes on the thoughts it holds
MaxPrev     == 2    \* thoughts held by the predecessor of the operation studied
MaxN        == 2    \* KeepBestN is constructed with n in 0..MaxN
MaxParse    == 2    \* states a parser returns for one prompt
MaxTries    == 3    \* ValidateAndImprove is constructed with num_tries in 0..MaxTries
MaxGen      == 3    \* states the parser returns to the Generate of the linear graph
MaxThreads  == 2    \* threads that call EventEmitter() or get_emitter()

\* Generate.__init__: one response is requested per prompt by default, and
\* the parser returns at most one state per response
num_branches_response == 1

\* Score.__init__: one response is requested per scoring prompt by default
num_samples == 1

Ops == 1..MaxOps

VARIABLES
    predecessors,       \* Operation.predecessors, per operation
    successors,         \* Operation.successors, per operation
    executed,           \* Operation.executed, per operation
    thoughts,           \* Operation.thoughts (Generate), ids of the thoughts held
    thought_ids,        \* Thought._ids: the next thought id
    operations,         \* GraphOfOperations.operations
    roots,              \* GraphOfOperations.roots
    leaves,             \* GraphOfOperations.leaves
    run_executed,       \* Controller.run_executed
    execution_queue,    \* local execution_queue of Controller.run
    current_operation,  \* local current_operation of Controller.run (0: none)
    pc,                 \* position of the controller
    error,              \* the exception that ended the last run ("" if none)
    started,            \* history: operations whose _execute started in this run
    re_executed,        \* history: in a run, _execute returned on an operation already executed
    completed,          \* history: some Controller.run call has returned
    first_run,          \* history: no second Controller.run call was made yet
    final_thoughts,     \* outcome of a get_final_thoughts call made in the last step
    call,               \* outcome of the last direct Operation.execute call
    built,              \* the last append_operation or add_operation call and the graph before it
    heap,               \* the Thought objects, heap[i] is the one with id i - 1
    dicts,              \* the dict objects that thoughts hold as their state
    predecessor,        \* the operation before the one studied: executed, thoughts
    self,               \* the operation studied: its constructor arguments and fields
    io,                 \* what the collaborators answered in self.execute, and its outcome
    enhanced,           \* EnhancedThought attributes of the Thought objects, by heap index
    tracker,            \* GoTExecutionTracker: operations_data and execution_events
    emitter             \* EventEmitter class and module state, and the threads using it

vars == << predecessors, successors, executed, thoughts, thought_ids,
           operations, roots, leaves, run_executed, execution_queue,
           current_operation, pc, error, started, re_executed,
           completed, first_run, final_thoughts, call, built,
           heap, dicts, predecessor, self, io, enhanced, tracker, emitter >>

\* the enhanced operations, the execution tracker and the event emitter
extVars == << enhanced, tracker, emitter >>

\* the Thought objects and the single operation studied on them
objVars == << heap, dicts, predecessor, self, io, extVars >>

\* the graph, its operations seen as nodes, and the controller
engineVars == << predecessors, successors, executed, thoughts, thought_ids,
                 operations, roots, leaves, run_executed, execution_queue,
                 current_operation, pc, error, started, re_executed,
                 completed, first_run, final_thoughts, call, built >>

graphVars == << operations, roots, leaves >>
edgeVars  == << predecessors, successors >>
ctrlVars  == << run_executed, execution_queue, current_operation, pc, error,
                started, completed, first_run >>

\* ----------------------------------------------------------- list helpers
InList(x, s) == \E i \in 1..Len(s) : s[i] = x

RECURSIVE Count(_, _)
Count(x, s) ==
    IF s = << >> THEN 0
    ELSE (IF Head(s) = x THEN 1 ELSE 0) + Count(x, Tail(s))

\* list.remove(x): removes the first occurrence
RECURSIVE RemoveFirst(_, _)
RemoveFirst(x, s) ==
    IF s = << >> THEN << >>
    ELSE IF Head(s) = x THEN Tail(s)
    ELSE << Head(s) >> \o RemoveFirst(x, Tail(s))

RECURSIVE SumSeq(_)
SumSeq(s) == IF s = << >> THEN 0 ELSE Head(s) + SumSeq(Tail(s))

\* the ids lo, lo+1, ..., lo+n-1 in order
IdRange(lo, n) == [i \in 1..n |-> lo + i - 1]

NumEdges == SumSeq([o \in Ops |-> Len(predecessors[o])])

NoCall  == [op |-> 0, executed_before |-> << >>, thoughts_before |-> << >>,
            ids_before |-> 0, outcome |-> "none"]
NoFinal == [status |-> "none", value |-> << >>]
NoBuilt == [predecessors |-> << >>, successors |-> << >>, operations |-> << >>,
            roots |-> << >>, leaves |-> << >>, call |-> "none", op |-> 0,
            outcome |-> "none"]

\* ------------------------------------------------------------- Operation
\* faulty variant: any() instead of all()
can_be_executed_any(ex, o) ==
    Len(predecessors[o]) = 0 \/ \E i \in 1..Len(predecessors[o]) : ex[predecessors[o][i]]

\* faulty variant: only the first predecessor is looked at
can_be_executed_first(ex, o) ==
    Len(predecessors[o]) = 0 \/ ex[predecessors[o][1]]

\* Operation.can_be_executed, under the executed flags ex
can_be_executed(ex, o) ==
    \A i \in 1..Len(predecessors[o]) : ex[predecessors[o][i]]

\* Operation.get_previous_thoughts: the predecessors' thoughts, concatenated
\* in predecessor-list order
RECURSIVE ConcatThoughts(_)
ConcatThoughts(ps) ==
    IF ps = << >> THEN << >>
    ELSE thoughts[Head(ps)] \o ConcatThoughts(Tail(ps))

get_previous_thoughts(o) == ConcatThoughts(predecessors[o])

\* faulty variant: only the predecessor list is written
EdgeAddedOneWay(preds, succs, a, b) ==
    [p |-> [preds EXCEPT ![b] = Append(@, a)], s |-> succs]

\* Operation.add_predecessor / add_successor: the edge a -> b is appended to
\* a.successors and to b.predecessors
EdgeAdded(preds, succs, a, b) ==
    [p |-> [preds EXCEPT ![b] = Append(@, a)],
     s |-> [succs EXCEPT ![a] = Append(@, b)]]

\* ----------------------------------------------------- Generate._execute
\* Number of prompts a Generate operation issues: none when it has
\* predecessors that hold no thought, one for the implicit seed thought when
\* it has no predecessor thought at all, else one per predecessor thought.
NumSeeds(o) ==
    IF Len(get_previous_thoughts(o)) = 0 /\ Len(predecessors[o]) = 0 THEN 1 ELSE 0

NumPrompts(o) ==
    IF Len(get_previous_thoughts(o)) = 0
    THEN (IF Len(predecessors[o]) > 0 THEN 0 ELSE 1)
    ELSE Len(get_previous_thoughts(o))

\* ks[i]: number of states parse_generate_answer returns for the i-th prompt
ParseCounts(o) == [1..NumPrompts(o) -> 0..num_branches_response]

\* thoughts of o after _execute: one new Thought per parsed state, appended
GenerateThoughts(o, ks) ==
    thoughts[o] \o IdRange(thought_ids + NumSeeds(o), SumSeq(ks))

\* Thought._ids after _execute: the seed and every new thought took an id
GenerateIds(o, ks) == thought_ids + NumSeeds(o) + SumSeq(ks)

\* ------------------------------------------------------ GraphOfOperations
\* the graph is built before the first Controller.run
BuildPhase == pc = "idle"

\* faulty variant: operation.add_successor(leave), the edge is turned round
RECURSIVE ChainBefore(_, _, _, _)
ChainBefore(ls, op, preds, succs) ==
    IF ls = << >> THEN [p |-> preds, s |-> succs]
    ELSE LET e == EdgeAdded(preds, succs, op, Head(ls))
         IN  ChainBefore(Tail(ls), op, e.p, e.s)

\* leave.add_successor(operation) for every leave in self.leaves
RECURSIVE ChainAfter(_, _, _, _)
ChainAfter(ls, op, preds, succs) ==
    IF ls = << >> THEN [p |-> preds, s |-> succs]
    ELSE LET e == EdgeAdded(preds, succs, Head(ls), op)
         IN  ChainAfter(Tail(ls), op, e.p, e.s)

\* for predecessor in operation.predecessors: remove it from leaves if there
RECURSIVE LeavesWithout(_, _)
LeavesWithout(ls, ps) ==
    IF ps = << >> THEN ls
    ELSE LeavesWithout(IF InList(Head(ps), ls) THEN RemoveFirst(Head(ps), ls) ELSE ls,
                       Tail(ps))

add_predecessor(a, b) ==
    /\ BuildPhase
    /\ NumEdges < MaxEdges
    /\ LET e == EdgeAdded(predecessors, successors, b, a)
       IN  predecessors' = e.p /\ successors' = e.s
    /\ final_thoughts' = NoFinal
    /\ call' = NoCall
    /\ built' = NoBuilt
    /\ UNCHANGED << objVars, executed, thoughts, thought_ids, graphVars, ctrlVars,
                    re_executed >>

add_successor(a, b) ==
    /\ BuildPhase
    /\ NumEdges < MaxEdges
    /\ LET e == EdgeAdded(predecessors, successors, a, b)
       IN  predecessors' = e.p /\ successors' = e.s
    /\ final_thoughts' = NoFinal
    /\ call' = NoCall
    /\ built' = NoBuilt
    /\ UNCHANGED << objVars, executed, thoughts, thought_ids, graphVars, ctrlVars,
                    re_executed >>

\* history: the call made and the graph it was made on
Built(name, op, outcome) ==
    [predecessors |-> predecessors, successors |-> successors,
     operations |-> operations, roots |-> roots, leaves |-> leaves,
     call |-> name, op |-> op, outcome |-> outcome]

\* Every Operation object is registered at most once, by either method;
\* op is the next one in registration order.
append_operation(op) ==
    /\ BuildPhase
    /\ op = Len(operations) + 1
    /\ NumEdges + (IF Len(roots) = 0 THEN 0 ELSE Len(leaves)) <= MaxEdges
    /\ operations' = Append(operations, op)
    /\ IF Len(roots) = 0
       THEN /\ roots' = << op >>
            /\ UNCHANGED edgeVars
       ELSE /\ roots' = roots
            /\ LET e == ChainAfter(leaves, op, predecessors, successors)
               IN  predecessors' = e.p /\ successors' = e.s
    /\ leaves' = << op >>
    /\ final_thoughts' = NoFinal
    /\ call' = NoCall
    /\ built' = Built("append_operation", op, "returned")
    /\ UNCHANGED << objVars, executed, thoughts, thought_ids, ctrlVars, re_executed >>

\* add_operation of an operation with predecessors into an empty graph fails
\* its assertion after the three lists were already changed.
add_operation(op) ==
    /\ BuildPhase
    /\ op = Len(operations) + 1
    /\ operations' = Append(operations, op)
    /\ IF Len(roots) = 0
       THEN /\ roots' = << op >>
            /\ leaves' = << op >>
       ELSE /\ roots' = IF Len(predecessors[op]) = 0 THEN Append(roots, op) ELSE roots
            /\ leaves' = LET kept == LeavesWithout(leaves, predecessors[op])
                         IN  IF Len(successors[op]) = 0 THEN Append(kept, op) ELSE kept
    /\ final_thoughts' = NoFinal
    /\ call' = NoCall
    /\ built' = Built("add_operation", op,
                       IF Len(roots) = 0 /\ Len(predecessors[op]) # 0
                       THEN "fatal" ELSE "returned")
    /\ UNCHANGED << objVars, edgeVars, executed, thoughts, thought_ids, ctrlVars,
                    re_executed >>

Build ==
    \/ \E a, b \in Ops : add_predecessor(a, b)
    \/ \E a, b \in Ops : add_successor(a, b)
    \/ \E op \in Ops : append_operation(op)
    \/ \E op \in Ops : add_operation(op)

\* ------------------------------------------------------------------- Init
\* no Thought object exists and no operation is studied on its own
\* Operation.__init__ and the subclass constructors: every field a subclass
\* adds is present
Fields(kind, n, higher_is_better, combined_scoring, scoring_function, improve, num_tries, validate_function) ==
    [executed |-> FALSE, thoughts |-> << >>, n |-> n, kind |-> kind,
     higher_is_better |-> higher_is_better,
     combined_scoring |-> combined_scoring,
     scoring_function |-> scoring_function,
     improve |-> improve, num_tries |-> num_tries,
     validate_function |-> validate_function, num_predecessors |-> 0]

\* an operation of a subclass constructed without arguments
Operation(kind) == Fields(kind, 0, TRUE, FALSE, FALSE, TRUE, 3, FALSE)

NoOperation == Operation("none")
NoPredecessor == [executed |-> FALSE, thoughts |-> << >>]
NoIO == [call |-> "none", outcome |-> "none", queries |-> 0, seeds |-> 0,
         answers |-> << >>, kwargs |-> << >>, given |-> << >>]

\* GoTExecutionTracker.__init__
NoTracker == [operations_data |-> << >>, execution_events |-> << >>]

\* no EnhancedThought, no tracker entry, no EventEmitter call
ExtInit ==
    /\ enhanced = << >>
    /\ tracker = NoTracker
    /\ emitter = << >>

ObjectsInit ==
    /\ ExtInit
    /\ heap = << >>
    /\ dicts = << >>
    /\ predecessor = NoPredecessor
    /\ self = NoOperation
    /\ io = NoIO

EngineInit ==
    /\ predecessors = [o \in Ops |-> << >>]
    /\ successors = [o \in Ops |-> << >>]
    /\ executed = [o \in Ops |-> FALSE]
    /\ thoughts = [o \in Ops |-> << >>]
    /\ thought_ids = 0
    /\ operations = << >>
    /\ roots = << >>
    /\ leaves = << >>
    /\ run_executed = FALSE
    /\ execution_queue = << >>
    /\ current_operation = 0
    /\ pc = "idle"
    /\ error = ""
    /\ started = << >>
    /\ re_executed = [o \in Ops |-> FALSE]
    /\ completed = FALSE
    /\ first_run = TRUE
    /\ final_thoughts = NoFinal
    /\ call = NoCall
    /\ built = NoBuilt

Init == EngineInit /\ ObjectsInit

\* ---------------------------------------------------- Operation.execute
\* self.executed after execute returned
ExecutedOnReturn(o) == [executed EXCEPT ![o] = TRUE]

\* faulty variant: a failed operation is marked as not executed
ExecutedOnRaiseCleared(o) == [executed EXCEPT ![o] = FALSE]

\* self.executed after _execute raised: the assignment is not reached
ExecutedOnRaise(o) == executed

\* Parse counts of the prompts answered before the collaborator raised at
\* prompt j + 1: the thoughts of the first j prompts are already appended.
PartialCounts(o) ==
    UNION { [1..j -> 0..num_branches_response] : j \in 0..(NumPrompts(o) - 1) }

\* ------------------------------------------------------------- Controller
AtRest == pc \in {"idle", "done", "aborted"}

\* assert self.graph.roots is not None: roots is always a list
RootsIsNotNone == roots \in Seq(Ops)

\* the initial execution_queue: the operations that can be executed, in
\* graph.operations order
InitialQueue == SelectSeq(operations, LAMBDA o : can_be_executed(executed, o))

\* The loop over current_operation.successors under the flags ex, starting
\* with queue q: ok is FALSE when a successor is not in graph.operations
\* (the assertion fails; the successors before it were already appended).
RECURSIVE ScanSuccessors(_, _, _)
ScanSuccessors(ss, q, ex) ==
    IF ss = << >> THEN [queue |-> q, ok |-> TRUE]
    ELSE IF ~InList(Head(ss), operations) THEN [queue |-> q, ok |-> FALSE]
    ELSE ScanSuccessors(Tail(ss),
                        IF can_be_executed(ex, Head(ss)) THEN Append(q, Head(ss)) ELSE q,
                        ex)

\* faulty variant: the loop starts at the second successor
SuccessorsEnqueuedSkipFirst(op, q, ex) ==
    ScanSuccessors(IF successors[op] = << >> THEN << >> ELSE Tail(successors[op]), q, ex)

\* for operation in current_operation.successors: ... of Controller.run
SuccessorsEnqueued(op, q, ex) == ScanSuccessors(successors[op], q, ex)

\* Controller.run, up to the while loop
RunStart ==
    /\ AtRest
    /\ IF RootsIsNotNone
       THEN /\ execution_queue' = InitialQueue
            /\ pc' = "loop"
            /\ error' = ""
       ELSE /\ execution_queue' = execution_queue
            /\ pc' = "aborted"
            /\ error' = "NoRoot"
    /\ current_operation' = 0
    /\ started' = << >>
    /\ first_run' = (pc = "idle")
    /\ final_thoughts' = NoFinal
    /\ built' = NoBuilt
    /\ UNCHANGED << objVars, edgeVars, executed, thoughts, thought_ids, graphVars,
                    run_executed, re_executed, completed, call >>

\* faulty variant: the queue is graph.operations itself, so pop(0) takes
\* the operation out of the graph
ExecuteStartOnOperations ==
    /\ pc = "loop"
    /\ execution_queue # << >>
    /\ current_operation' = Head(execution_queue)
    /\ execution_queue' = Tail(execution_queue)
    /\ operations' = RemoveFirst(Head(execution_queue), operations)
    /\ IF can_be_executed(executed, Head(execution_queue))
       THEN /\ pc' = "executing"
            /\ error' = error
            /\ started' = Append(started, Head(execution_queue))
       ELSE /\ pc' = "aborted"
            /\ error' = "NotReady"
            /\ started' = started
    /\ UNCHANGED << objVars, built, edgeVars, executed, thoughts, thought_ids, roots,
                    leaves, run_executed, re_executed, completed, first_run,
                    final_thoughts, call >>

\* faulty variant: execution_queue.pop() takes the operation queued last
ExecuteStartFromTail ==
    /\ pc = "loop"
    /\ execution_queue # << >>
    /\ current_operation' = execution_queue[Len(execution_queue)]
    /\ execution_queue' = SubSeq(execution_queue, 1, Len(execution_queue) - 1)
    /\ IF can_be_executed(executed, execution_queue[Len(execution_queue)])
       THEN /\ pc' = "executing"
            /\ error' = error
            /\ started' = Append(started, execution_queue[Len(execution_queue)])
       ELSE /\ pc' = "aborted"
            /\ error' = "NotReady"
            /\ started' = started
    /\ UNCHANGED << objVars, built, edgeVars, executed, thoughts, thought_ids, graphVars,
                    run_executed, re_executed, completed, first_run,
                    final_thoughts, call >>

\* execution_queue.pop(0) and Operation.execute up to the call of _execute
ExecuteStart ==
    /\ pc = "loop"
    /\ execution_queue # << >>
    /\ current_operation' = Head(execution_queue)
    /\ execution_queue' = Tail(execution_queue)
    /\ IF can_be_executed(executed, Head(execution_queue))
       THEN /\ pc' = "executing"
            /\ error' = error
            /\ started' = Append(started, Head(execution_queue))
       ELSE /\ pc' = "aborted"
            /\ error' = "NotReady"
            /\ started' = started
    /\ UNCHANGED << objVars, built, edgeVars, executed, thoughts, thought_ids, graphVars,
                    run_executed, re_executed, completed, first_run,
                    final_thoughts, call >>

\* _execute returns, execute sets the flag, run scans the successors
ExecuteReturn(ks) ==
    /\ pc = "executing"
    /\ GenerateIds(current_operation, ks) <= MaxThoughts
    /\ thoughts' = [thoughts EXCEPT ![current_operation] =
                        GenerateThoughts(current_operation, ks)]
    /\ thought_ids' = GenerateIds(current_operation, ks)
    /\ executed' = ExecutedOnReturn(current_operation)
    /\ re_executed' = [re_executed EXCEPT ![current_operation] =
                           @ \/ executed[current_operation]]
    /\ LET r == SuccessorsEnqueued(current_operation, execution_queue,
                                   ExecutedOnReturn(current_operation))
       IN  /\ execution_queue' = r.queue
           /\ pc' = IF r.ok THEN "loop" ELSE "aborted"
           /\ error' = IF r.ok THEN error ELSE "SuccessorNotInGraph"
    /\ UNCHANGED << objVars, built, edgeVars, graphVars, run_executed, current_operation,
                    started, completed, first_run, final_thoughts, call >>

\* a collaborator raises inside _execute; the exception leaves run
ExecuteRaise(ks) ==
    /\ pc = "executing"
    /\ GenerateIds(current_operation, ks) <= MaxThoughts
    /\ thoughts' = [thoughts EXCEPT ![current_operation] =
                        GenerateThoughts(current_operation, ks)]
    /\ thought_ids' = GenerateIds(current_operation, ks)
    /\ executed' = ExecutedOnRaise(current_operation)
    /\ pc' = "aborted"
    /\ error' = "Transformation"
    /\ UNCHANGED << objVars, built, edgeVars, graphVars, run_executed, execution_queue,
                    current_operation, started, re_executed, completed,
                    first_run, final_thoughts, call >>

\* faulty variant: run returns without setting run_executed
RunFinishUnmarked ==
    /\ pc = "loop"
    /\ execution_queue = << >>
    /\ completed' = TRUE
    /\ pc' = "done"
    /\ UNCHANGED << objVars, built, edgeVars, executed, thoughts, thought_ids, graphVars,
                    run_executed, execution_queue, current_operation, error, started,
                    re_executed, first_run, final_thoughts, call >>

\* the queue is empty: run returns
RunFinish ==
    /\ pc = "loop"
    /\ execution_queue = << >>
    /\ run_executed' = TRUE
    /\ completed' = TRUE
    /\ pc' = "done"
    /\ UNCHANGED << objVars, built, edgeVars, executed, thoughts, thought_ids, graphVars,
                    execution_queue, current_operation, error, started,
                    re_executed, first_run, final_thoughts, call >>

\* Generate.get_thoughts
get_thoughts(o) == thoughts[o]

\* faulty variant: the assertion on run_executed is missing
FinalThoughtsUnchecked ==
    [status |-> "returned",
     value |-> [i \in 1..Len(leaves) |-> get_thoughts(leaves[i])]]

\* faulty variant: the leaves' thoughts are merged into one list
FinalThoughtsFlattened ==
    IF run_executed
    THEN [status |-> "returned", value |-> ConcatThoughts(leaves)]
    ELSE [status |-> "fatal", value |-> << >>]

\* Controller.get_final_thoughts
FinalThoughts ==
    IF run_executed
    THEN [status |-> "returned",
          value |-> [i \in 1..Len(leaves) |-> get_thoughts(leaves[i])]]
    ELSE [status |-> "fatal", value |-> << >>]

get_final_thoughts ==
    /\ AtRest
    /\ final_thoughts = NoFinal
    /\ final_thoughts' = FinalThoughts
    /\ built' = NoBuilt
    /\ UNCHANGED << objVars, edgeVars, executed, thoughts, thought_ids, graphVars,
                    ctrlVars, re_executed, call >>

\* Operation.execute called by a client directly, outside Controller.run:
\* the assertion, _execute (which returns or raises) and the flag
Called(o, outcome) ==
    [op |-> o, executed_before |-> executed, thoughts_before |-> thoughts[o],
     ids_before |-> thought_ids, outcome |-> outcome]

execute(o) ==
    /\ pc = "idle"
    /\ \/ /\ ~can_be_executed(executed, o)
          /\ call' = Called(o, "fatal")
          /\ UNCHANGED << executed, thoughts, thought_ids >>
       \/ /\ can_be_executed(executed, o)
          /\ \E ks \in ParseCounts(o) :
                /\ GenerateIds(o, ks) <= MaxThoughts
                /\ thoughts' = [thoughts EXCEPT ![o] = GenerateThoughts(o, ks)]
                /\ thought_ids' = GenerateIds(o, ks)
          /\ executed' = ExecutedOnReturn(o)
          /\ call' = Called(o, "returned")
       \/ /\ can_be_executed(executed, o)
          /\ \E ks \in PartialCounts(o) :
                /\ GenerateIds(o, ks) <= MaxThoughts
                /\ thoughts' = [thoughts EXCEPT ![o] = GenerateThoughts(o, ks)]
                /\ thought_ids' = GenerateIds(o, ks)
          /\ executed' = ExecutedOnRaise(o)
          /\ call' = Called(o, "raised")
    /\ final_thoughts' = NoFinal
    /\ built' = NoBuilt
    /\ UNCHANGED << objVars, edgeVars, graphVars, ctrlVars, re_executed >>

Run ==
    \/ RunStart
    \/ ExecuteStart
    \/ pc = "executing" /\ \E ks \in ParseCounts(current_operation) : ExecuteReturn(ks)
    \/ pc = "executing" /\ \E ks \in PartialCounts(current_operation) : ExecuteRaise(ks)
    \/ RunFinish

Next ==
    \/ Build
    \/ Run
    \/ get_final_thoughts

Spec == Init /\ [][Next]_vars

\* Graph construction as the workflows do it, followed by runs: an edge is
\* wired before the operation it leads to is registered, and every
\* registering call returns.
Unregistered(op) == ~InList(op, operations)

\* add_operation returns: its assertion holds
Accepted(op) == Len(roots) # 0 \/ Len(predecessors[op]) = 0

NextBuild ==
    \/ \E a, b \in Ops : Unregistered(a) /\ add_predecessor(a, b)
    \/ \E a, b \in Ops : Unregistered(b) /\ add_successor(a, b)
    \/ \E op \in Ops : append_operation(op)
    \/ \E op \in Ops : Accepted(op) /\ add_operation(op)
    \/ Run
    \/ get_final_thoughts

SpecBuild == Init /\ [][NextBuild]_vars

\* One run in which every transformation returns.  Once run is called its
\* loop goes on by itself: a queued operation is popped and executed, an
\* execution returns, and run returns when the queue is empty.
ExecuteReturns ==
    pc = "executing" /\ \E ks \in ParseCounts(current_operation) : ExecuteReturn(ks)

NextLive ==
    \/ Build
    \/ pc = "idle" /\ RunStart
    \/ ExecuteStart
    \/ ExecuteReturns
    \/ RunFinish

SpecLive ==
    /\ Init
    /\ [][NextLive]_vars
    /\ WF_vars(ExecuteStart)
    /\ WF_vars(ExecuteReturns)
    /\ WF_vars(RunFinish)

\* Operations wired and executed by direct calls, without a graph or a
\* Controller
NextExec ==
    \/ \E a, b \in Ops : add_predecessor(a, b)
    \/ \E a, b \in Ops : add_successor(a, b)
    \/ \E o \in Ops : execute(o)

SpecExec == Init /\ [][NextExec]_vars

\* ================================================================ Thought
\* A state map: every key holds a value or is absent.
Keys   == {"a", "b"}
Vals   == {"x", "y"}
Absent == "-"

DictValues == [Keys -> Vals \cup {Absent}]
EmptyDict  == [k \in Keys |-> Absent]

\* bool(d) of a dict is False exactly for the empty one
IsEmpty(d) == \A k \in Keys : d[k] = Absent

\* {**a, **b}
Merged(a, b) == [k \in Keys |-> IF b[k] # Absent THEN b[k] ELSE a[k]]

Scores == 0..MaxScore

\* the Thought objects and dict objects, passed through the operators below
Store == [heap |-> heap, dicts |-> dicts]

\* Thought.__init__(state): state is a dict object (0: None).  self.state is
\* the object passed in, or a new empty dict when that is None or empty.
Thought(st, state) ==
    LET fresh == state = 0 \/ IsEmpty(st.dicts[state])
        ds    == IF fresh THEN Append(st.dicts, EmptyDict) ELSE st.dicts
    IN  [heap  |-> Append(st.heap,
                          [id |-> Len(st.heap),
                           state |-> IF fresh THEN Len(ds) ELSE state,
                           score |-> 0, valid |-> FALSE, solved |-> FALSE,
                           scored |-> FALSE, validated |-> FALSE,
                           compared_to_ground_truth |-> FALSE,
                           source |-> 0]),
         dicts |-> ds]

\* the property setters
valid_setter(t, valid)      == [t EXCEPT !.validated = TRUE, !.valid = valid]
score_setter(t, new_score)  == [t EXCEPT !.scored = TRUE, !.score = new_score]
solved_setter(t, solved)    == [t EXCEPT !.compared_to_ground_truth = TRUE,
                                         !.solved = solved]

\* faulty variant: the three flags keep what the setters made of them
FlagsAsSet(t, thought) == t

\* new_thought.scored = thought.scored and the two assignments after it
FlagsAssigned(t, thought) ==
    [t EXCEPT !.scored = thought.scored,
              !.validated = thought.validated,
              !.compared_to_ground_truth = thought.compared_to_ground_truth]

\* Thought.from_thought(thought), thought being heap[i]; the new Thought is
\* the last of the heap returned (source: history, the thought copied)
from_thought(st, i) ==
    LET thought == st.heap[i]
        st1 == Thought(st, thought.state)
        n   == Len(st1.heap)
        t1  == score_setter(st1.heap[n], thought.score)
        t2  == valid_setter(t1, thought.valid)
        t3  == solved_setter(t2, thought.solved)
        t4  == FlagsAssigned(t3, thought)
    IN  [st1 EXCEPT !.heap[n] = [t4 EXCEPT !.source = i]]

\* a client calls Thought.from_thought on a thought it holds
call_from_thought(i) ==
    /\ Len(heap) <= MaxCopies
    /\ LET st == from_thought(Store, i)
       IN  heap' = st.heap /\ dicts' = st.dicts
    /\ UNCHANGED << engineVars, predecessor, self, io, extVars >>

\* a client assigns thought.state[k] = v, thought being heap[i]
set_state_item(i, k, v) ==
    /\ dicts' = [dicts EXCEPT ![heap[i].state][k] = v]
    /\ UNCHANGED << engineVars, heap, predecessor, self, io, extVars >>

\* One Thought in any condition its public attributes can be put into, then
\* copies of it and of its copies, and writes to their state maps.
InitThought ==
    /\ EngineInit
    /\ ExtInit
    /\ predecessor = NoPredecessor
    /\ self = NoOperation
    /\ io = NoIO
    /\ dicts \in { << d >> : d \in DictValues }
    /\ heap \in { << [id |-> 0, state |-> 1, score |-> s, valid |-> f[1],
                      solved |-> f[2], scored |-> f[3], validated |-> f[4],
                      compared_to_ground_truth |-> f[5], source |-> 0] >> :
                  s \in Scores, f \in [1..5 -> BOOLEAN] }

NextThought ==
    \/ \E i \in 1..Len(heap) : call_from_thought(i)
    \/ \E i \in 1..Len(heap) : \E k \in Keys : \E v \in Vals : set_state_item(i, k, v)

SpecThought == InitThought /\ [][NextThought]_vars

\* ============================================================== operations
\* One operation on its own: constructed, wired behind one predecessor
\* operation, executed once.  predecessor stands for that operation: its
\* executed flag and the thoughts its get_thoughts returns.

\* self.can_be_executed()
SelfCanBeExecuted == self.num_predecessors = 0 \/ predecessor.executed

\* self.get_previous_thoughts()
PreviousThoughts ==
    IF self.num_predecessors = 0 THEN << >> ELSE predecessor.thoughts

\* [Thought.from_thought(thought) for thought in ts]
RECURSIVE CopyEach(_, _, _)
CopyEach(st, ts, out) ==
    IF ts = << >> THEN [st |-> st, thoughts |-> out]
    ELSE LET s1 == from_thought(st, Head(ts))
         IN  CopyEach(s1, Tail(ts), Append(out, Len(s1.heap)))

\* result of _execute: how it ended, the objects, self.thoughts and the
\* collaborator calls made (given: the list a selector function was called on)
Result(outcome, st, ts, queries, seeds) ==
    [outcome |-> outcome, st |-> st, thoughts |-> ts,
     queries |-> queries, seeds |-> seeds, given |-> << >>]

Failed == Result("fatal", Store, self.thoughts, 0, 0)

\* Operation.execute around a result r of _execute: the assertion on
\* can_be_executed, _execute, then self.executed = True
Execute(r, answers, kwargs) ==
    /\ io' = [call |-> "execute",
              outcome |-> IF SelfCanBeExecuted THEN r.outcome ELSE "fatal",
              queries |-> IF SelfCanBeExecuted THEN r.queries ELSE 0,
              seeds |-> IF SelfCanBeExecuted THEN r.seeds ELSE 0,
              answers |-> answers, kwargs |-> kwargs,
              given |-> IF SelfCanBeExecuted THEN r.given ELSE << >>]
    /\ heap' = IF SelfCanBeExecuted THEN r.st.heap ELSE heap
    /\ dicts' = IF SelfCanBeExecuted THEN r.st.dicts ELSE dicts
    /\ self' = IF SelfCanBeExecuted
               THEN [self EXCEPT !.thoughts = r.thoughts,
                                 !.executed = IF r.outcome = "returned"
                                              THEN TRUE ELSE @]
               ELSE self
    /\ UNCHANGED << engineVars, predecessor, extVars >>

Constructed(o, name, args) ==
    /\ self = NoOperation
    /\ io = NoIO
    /\ self' = o
    /\ io' = [NoIO EXCEPT !.call = name,
                          !.outcome = IF o = NoOperation THEN "fatal" ELSE "returned",
                          !.answers = args]
    /\ UNCHANGED << engineVars, heap, dicts, predecessor, extVars >>

\* self.add_predecessor(predecessor), once
AddPredecessor ==
    /\ self # NoOperation
    /\ io.call # "execute"
    /\ self.num_predecessors = 0
    /\ self' = [self EXCEPT !.num_predecessors = 1]
    /\ UNCHANGED << engineVars, heap, dicts, predecessor, io, extVars >>

Executable(kind) == self.kind = kind /\ io.call # "execute"

\* --------------------------------------------------------------- Generate
Generate_init == Constructed(Operation("Generate"), "Generate", << >>)

\* faulty variant: an operation without predecessor thoughts always returns
ReturnsEarlyWhenEmpty(prev) == Len(prev) = 0

\* faulty variant: an operation without predecessor thoughts never returns
ReturnsEarlyNever(prev) == FALSE

\* if len(previous_thoughts) == 0 and len(self.predecessors) > 0: return
ReturnsEarly(prev) == Len(prev) = 0 /\ self.num_predecessors > 0

\* number of thoughts the loop of Generate._execute goes over
SelfNumPrompts ==
    IF ReturnsEarly(PreviousThoughts) THEN 0
    ELSE IF Len(PreviousThoughts) = 0 THEN 1
    ELSE Len(PreviousThoughts)

\* the m-th state a parser returns for a prompt
Parsed(m) == [k \in Keys |-> IF k = "b" THEN (IF m % 2 = 1 THEN "x" ELSE "y")
                                         ELSE Absent]

\* for new_state in parse_generate_answer(...): Thought({**base_state,
\* **new_state}) appended to self.thoughts, for the states m..k
RECURSIVE AppendParsed(_, _, _, _, _)
AppendParsed(st, base, m, k, out) ==
    IF m > k THEN [st |-> st, thoughts |-> out]
    ELSE LET sd == [st EXCEPT !.dicts = Append(@, Merged(st.dicts[base], Parsed(m)))]
             s1 == Thought(sd, Len(sd.dicts))
         IN  AppendParsed(s1, base, m + 1, k, Append(out, Len(s1.heap)))

\* for thought in previous_thoughts: one prompt, one query, ks[j] states
RECURSIVE GenerateLoop(_, _, _, _, _)
GenerateLoop(st, ts, ks, j, out) ==
    IF j > Len(ts) THEN [st |-> st, thoughts |-> out]
    ELSE LET r == AppendParsed(st, st.heap[ts[j]].state, 1, ks[j], out)
         IN  GenerateLoop(r.st, ts, ks, j + 1, r.thoughts)

\* Generate._execute with problem parameters kw
Generate_execute(kw, ks) ==
    LET prev == PreviousThoughts
    IN  IF ReturnsEarly(prev) THEN Result("returned", Store, self.thoughts, 0, 0)
        ELSE IF Len(prev) = 0
        THEN LET sk   == [Store EXCEPT !.dicts = Append(@, kw)]
                 seed == Thought(sk, Len(sk.dicts))
                 r    == GenerateLoop(seed, << Len(seed.heap) >>, ks, 1, self.thoughts)
             IN  Result("returned", r.st, r.thoughts, 1, 1)
        ELSE LET r == GenerateLoop(Store, prev, ks, 1, self.thoughts)
             IN  Result("returned", r.st, r.thoughts, Len(prev), 0)

execute_Generate(kw, ks) ==
    /\ Executable("Generate")
    /\ Execute(Generate_execute(kw, ks), ks, kw)

\* -------------------------------------------------------------- KeepBestN
\* assert self.n > 0 after the fields were set: no object is handed out
KeepBestN_init(n, higher_is_better) ==
    Constructed(IF n > 0
                THEN Fields("KeepBestN", n, higher_is_better, FALSE, FALSE,
                            TRUE, 3, FALSE)
                ELSE NoOperation,
                "KeepBestN", << n >>)

\* faulty variant: ties go in front
ComesFirstOrTies(st, a, b, reverse) ==
    IF reverse THEN st.heap[a].score >= st.heap[b].score
    ELSE st.heap[a].score <= st.heap[b].score

\* a is sorted strictly in front of b: sorted() is stable, with reverse too
ComesFirst(st, a, b, reverse) ==
    IF reverse THEN st.heap[a].score > st.heap[b].score
    ELSE st.heap[a].score < st.heap[b].score

RECURSIVE InsertSorted(_, _, _, _)
InsertSorted(st, x, s, reverse) ==
    IF s = << >> THEN << x >>
    ELSE IF ComesFirst(st, x, Head(s), reverse) THEN << x >> \o s
    ELSE << Head(s) >> \o InsertSorted(st, x, Tail(s), reverse)

RECURSIVE SortedInto(_, _, _, _)
SortedInto(st, ts, acc, reverse) ==
    IF ts = << >> THEN acc
    ELSE SortedInto(st, Tail(ts), InsertSorted(st, Head(ts), acc, reverse), reverse)

\* sorted(ts, key=lambda thought: thought.score, reverse=reverse)
sorted(st, ts, reverse) == SortedInto(st, ts, << >>, reverse)

\* faulty variant: s[-n:], the last n
SlicedLast(s, n) == SubSeq(s, IF n < Len(s) THEN Len(s) - n + 1 ELSE 1, Len(s))

\* s[:n] for n >= 0
Sliced(s, n) == SubSeq(s, 1, IF n < Len(s) THEN n ELSE Len(s))

\* faulty variant: the scored flags are not looked at
AllScoredUnchecked(st, ts) == TRUE

\* all(previous_thought.scored for previous_thought in previous_thoughts)
AllScored(st, ts) == \A i \in 1..Len(ts) : st.heap[ts[i]].scored

\* KeepBestN.get_best_n, after its assertion
get_best_n == Sliced(sorted(Store, PreviousThoughts, self.higher_is_better), self.n)

KeepBestN_execute ==
    IF self.num_predecessors < 1 THEN Failed
    ELSE IF ~AllScored(Store, PreviousThoughts) THEN Failed
    ELSE LET r == CopyEach(Store, get_best_n, << >>)
         IN  Result("returned", r.st, r.thoughts, 0, 0)

execute_KeepBestN ==
    /\ Executable("KeepBestN")
    /\ Execute(KeepBestN_execute, << >>, << >>)

\* ------------------------------------------------------------------ Score
Score_init(combined_scoring, scoring_function) ==
    Constructed(Fields("Score", 0, TRUE, combined_scoring, scoring_function,
                       TRUE, 3, FALSE),
                "Score", << >>)

\* the new thought, the last of the heap, gets a score
ScoreLast(st, score) ==
    [st EXCEPT !.heap[Len(st.heap)] = score_setter(@, score)]

\* for thought, score in zip(previous_thoughts, scores): copy, score, append
RECURSIVE ScoreZipped(_, _, _, _, _)
ScoreZipped(st, ts, scores, j, out) ==
    IF j > Len(ts) \/ j > Len(scores) THEN [st |-> st, thoughts |-> out]
    ELSE LET s1 == ScoreLast(from_thought(st, ts[j]), scores[j])
         IN  ScoreZipped(s1, ts, scores, j + 1, Append(out, Len(s1.heap)))

\* The scores handed back.  A scoring function returns one score per state
\* it is given.  Without one, in combined mode, parse_score_answer returns
\* one score per response text and the language model returns num_samples
\* texts; in independent mode the first of these scores is taken.
ScoreAnswers ==
    IF self.combined_scoring /\ ~self.scoring_function
    THEN [1..num_samples -> Scores]
    ELSE [1..Len(PreviousThoughts) -> Scores]

\* faulty variant: the assertion is missing
ScoreUnasserted == TRUE

\* assert len(self.predecessors) > 0
ScoreAsserted == self.num_predecessors > 0

\* Score._execute: without a scoring function the language model is
\* queried, once for the list or once per thought
Score_execute(scores) ==
    LET prev == PreviousThoughts
        r == ScoreZipped(Store, prev, scores, 1, self.thoughts)
    IN  IF ~ScoreAsserted THEN Failed
        ELSE Result("returned", r.st, r.thoughts,
                    IF self.scoring_function THEN 0
                    ELSE IF self.combined_scoring THEN 1 ELSE Len(prev),
                    0)

execute_Score(scores) ==
    /\ Executable("Score")
    /\ Execute(Score_execute(scores), scores, << >>)

\* -------------------------------------------------------------- Aggregate
Aggregate_init == Constructed(Operation("Aggregate"), "Aggregate", << >>)

\* base_state = {**base_state, **thought.state} over ts in order
RECURSIVE Folded(_, _, _)
Folded(st, ts, base) ==
    IF ts = << >> THEN base
    ELSE Folded(st, Tail(ts), Merged(base, st.dicts[st.heap[Head(ts)].state]))

\* Thought({**base_state, **new_state}) for the parsed states m..k
RECURSIVE AppendAggregated(_, _, _, _, _)
AppendAggregated(st, base, m, k, out) ==
    IF m > k THEN [st |-> st, thoughts |-> out]
    ELSE LET sd == [st EXCEPT !.dicts = Append(@, Merged(base, Parsed(m)))]
             s1 == Thought(sd, Len(sd.dicts))
         IN  AppendAggregated(s1, base, m + 1, k, Append(out, Len(s1.heap)))

\* what parse_aggregation_answer returns: one dict, or a list of k dicts
AggregationAnswers == { << "dict", 1 >> } \cup { << "list", k >> : k \in 0..MaxParse }

\* faulty variant: a dict is iterated as it is, giving its keys and no state
ListedAsIs(parsed) == IF parsed[1] = "dict" THEN 0 ELSE parsed[2]

\* if isinstance(parsed, dict): parsed = [parsed]; the number of states then
Listed(parsed) == IF parsed[1] = "dict" THEN 1 ELSE parsed[2]

\* Aggregate._execute, the parser returning parsed
Aggregate_execute(parsed) ==
    LET prev == PreviousThoughts
        base == Folded(Store, sorted(Store, prev, FALSE), EmptyDict)
        r    == AppendAggregated(Store, base, 1, Listed(parsed), self.thoughts)
    IN  IF self.num_predecessors < 1 THEN Failed
        ELSE IF Len(prev) = 0 THEN Result("returned", Store, self.thoughts, 0, 0)
        ELSE Result("returned", r.st, r.thoughts, 1, 0)

execute_Aggregate(parsed) ==
    /\ Executable("Aggregate")
    /\ Execute(Aggregate_execute(parsed), << parsed >>, << >>)

\* ------------------------------------------------------------ GroundTruth
GroundTruth_init == Constructed(Operation("GroundTruth"), "GroundTruth", << >>)

\* what ground_truth_evaluator does on a state: returns true or false, or raises
EvaluatorAnswers == {"true", "false", "raise"}

\* faulty variant: the exception is not caught
ExceptCatchesNothing(answer) == FALSE

\* the bare except: catches whatever the evaluator raised
ExceptCatches(answer) == answer = "raise"

\* for thought in previous_thoughts: copy, solved, append; raised is TRUE
\* when an exception left the loop
RECURSIVE GroundTruthLoop(_, _, _, _, _)
GroundTruthLoop(st, ts, answers, j, out) ==
    IF j > Len(ts) THEN [st |-> st, thoughts |-> out, raised |-> FALSE]
    ELSE LET s1 == from_thought(st, ts[j])
             n  == Len(s1.heap)
         IN  IF answers[j] = "raise" /\ ~ExceptCatches(answers[j])
             THEN [st |-> s1, thoughts |-> out, raised |-> TRUE]
             ELSE LET s2 == [s1 EXCEPT !.heap[n] =
                                 solved_setter(@, answers[j] = "true")]
                  IN  GroundTruthLoop(s2, ts, answers, j + 1, Append(out, n))

GroundTruth_execute(answers) ==
    LET r == GroundTruthLoop(Store, PreviousThoughts, answers, 1, self.thoughts)
    IN  IF self.num_predecessors < 1 THEN Failed
        ELSE Result(IF r.raised THEN "raised" ELSE "returned",
                    r.st, r.thoughts, 0, 0)

execute_GroundTruth(answers) ==
    /\ Executable("GroundTruth")
    /\ Execute(GroundTruth_execute(answers), answers, << >>)

\* ----------------------------------------------------- ValidateAndImprove
ValidateAndImprove_init(improve, num_tries, validate_function) ==
    Constructed(Fields("ValidateAndImprove", 0, TRUE, FALSE, FALSE,
                       improve, num_tries, validate_function),
                "ValidateAndImprove", << >>)

\* the while True loop for one thought: current_thought is heap[cur], answer
\* is what validate_function returns on its state (the copies hold the same
\* state); the thought_list is returned
RECURSIVE Attempts(_, _, _, _, _)
Attempts(st, cur, current_try, answer, thought_list) ==
    LET valid == IF self.validate_function THEN answer ELSE TRUE
        s1    == [st EXCEPT !.heap[cur] = valid_setter(@, valid)]
        tl    == Append(thought_list, cur)
    IN  IF ~self.improve \/ valid \/ current_try >= self.num_tries
        THEN [st |-> s1, thought_list |-> tl]
        ELSE LET s2 == from_thought(s1, cur)
             IN  Attempts(s2, Len(s2.heap), current_try + 1, answer, tl)

RECURSIVE ValidateLoop(_, _, _, _, _)
ValidateLoop(st, ts, answers, j, out) ==
    IF j > Len(ts) THEN [st |-> st, thoughts |-> out]
    ELSE LET s1 == from_thought(st, ts[j])
             r  == Attempts(s1, Len(s1.heap), 0, answers[j], << >>)
         IN  ValidateLoop(r.st, ts, answers, j + 1, Append(out, r.thought_list))

ValidateAndImprove_execute(answers) ==
    LET r == ValidateLoop(Store, PreviousThoughts, answers, 1, self.thoughts)
    IN  IF self.num_predecessors = 0 THEN Failed
        ELSE Result("returned", r.st, r.thoughts, 0, 0)

execute_ValidateAndImprove(answers) ==
    /\ Executable("ValidateAndImprove")
    /\ Execute(ValidateAndImprove_execute(answers), answers, << >>)

\* faulty variant: the first attempt of every sequence is handed out
ValidateAndImprove_get_first ==
    [i \in 1..Len(self.thoughts) |-> self.thoughts[i][1]]

\* ValidateAndImprove.get_thoughts: thought_list[-1] of every thought_list
ValidateAndImprove_get_thoughts ==
    [i \in 1..Len(self.thoughts) |-> self.thoughts[i][Len(self.thoughts[i])]]

\* -------------------------------------------------------------- KeepValid
KeepValid_init == Constructed(Operation("KeepValid"), "KeepValid", << >>)

\* faulty variant: a thought nobody validated is dropped
KeptWhenValid(t) == t.valid

\* if not thought.validated or thought.valid
Kept(t) == ~t.validated \/ t.valid

\* KeepValid._execute
KeepValid_execute ==
    LET r == CopyEach(Store,
                      SelectSeq(PreviousThoughts, LAMBDA i : Kept(heap[i])),
                      << >>)
    IN  IF self.num_predecessors < 1 THEN Failed
        ELSE Result("returned", r.st, r.thoughts, 0, 0)

execute_KeepValid ==
    /\ Executable("KeepValid")
    /\ Execute(KeepValid_execute, << >>, << >>)

\* --------------------------------------------------------------- Selector
Selector_init == Constructed(Operation("Selector"), "Selector", << >>)

\* length of the list the selector function is called on
SelectorArity ==
    IF Len(PreviousThoughts) = 0 THEN 1 ELSE Len(PreviousThoughts)

\* what a selector function hands back: thoughts of the list it was given,
\* any of them in any order, named by their positions in that list
Selections == UNION { [1..n -> 1..SelectorArity] : n \in 0..SelectorArity }

\* Selector._execute with problem parameters kw, the selector function
\* returning the thoughts at the positions sel
Selector_execute(kw, sel) ==
    LET prev  == PreviousThoughts
        sk    == [Store EXCEPT !.dicts = Append(@, kw)]
        st    == IF Len(prev) = 0 THEN Thought(sk, Len(sk.dicts)) ELSE Store
        given == IF Len(prev) = 0 THEN << Len(st.heap) >> ELSE prev
        r     == CopyEach(st, [i \in 1..Len(sel) |-> given[sel[i]]], << >>)
    IN  [Result("returned", r.st, r.thoughts, 0, IF Len(prev) = 0 THEN 1 ELSE 0)
            EXCEPT !.given = given]

execute_Selector(kw, sel) ==
    /\ Executable("Selector")
    /\ Execute(Selector_execute(kw, sel), sel, kw)

\* ------------------------------------------------ the operation on its own
\* a thought as the operation that made it leaves it: as constructed
\* (Generate, Aggregate), scored (Score), or validated as valid or as not
\* valid (ValidateAndImprove)
NewThought ==
    [id |-> 0, state |-> 0, score |-> 0, valid |-> FALSE, solved |-> FALSE,
     scored |-> FALSE, validated |-> FALSE, compared_to_ground_truth |-> FALSE,
     source |-> 0]

InputThoughts ==
    { NewThought }
    \cup { score_setter(NewThought, s) : s \in Scores }
    \cup { valid_setter(NewThought, v) : v \in BOOLEAN }

\* the state map of the i-th thought of the predecessor: the thoughts
\* disagree on one key, and every second one holds a key the others lack
InputState(i) == [k \in Keys |-> IF k = "a" THEN (IF i % 2 = 1 THEN "x" ELSE "y")
                                 ELSE (IF i % 2 = 0 THEN "y" ELSE Absent)]

\* the problem parameters a Controller is constructed with: none, or some
ProblemParameters == { EmptyDict, InputState(1) }

\* The predecessor operation holds up to MaxPrev thoughts with ids from 0,
\* each with a state map of its own, and was executed or not.
InitOperation ==
    /\ EngineInit
    /\ ExtInit
    /\ self = NoOperation
    /\ io = NoIO
    /\ \E m \in 0..MaxPrev :
          /\ heap \in { [i \in 1..m |-> [ts[i] EXCEPT !.id = i - 1, !.state = i]] :
                        ts \in [1..m -> InputThoughts] }
          /\ dicts = [i \in 1..m |-> InputState(i)]
          /\ predecessor \in [executed : BOOLEAN, thoughts : {[i \in 1..m |-> i]}]

NextOperation ==
    \/ Generate_init
    \/ \E n \in 0..MaxN : \E hib \in BOOLEAN : KeepBestN_init(n, hib)
    \/ AddPredecessor
    \/ \E kw \in ProblemParameters : \E ks \in [1..SelfNumPrompts -> 0..MaxParse] :
          execute_Generate(kw, ks)
    \/ execute_KeepBestN
    \/ \E c, f \in BOOLEAN : Score_init(c, f)
    \/ \E scores \in ScoreAnswers : execute_Score(scores)
    \/ Aggregate_init
    \/ \E parsed \in AggregationAnswers : execute_Aggregate(parsed)
    \/ GroundTruth_init
    \/ \E answers \in [1..Len(PreviousThoughts) -> EvaluatorAnswers] :
          execute_GroundTruth(answers)
    \/ \E i, f \in BOOLEAN : \E n \in 0..MaxTries : ValidateAndImprove_init(i, n, f)
    \/ \E answers \in [1..Len(PreviousThoughts) -> BOOLEAN] :
          execute_ValidateAndImprove(answers)
    \/ KeepValid_init
    \/ execute_KeepValid
    \/ Selector_init
    \/ \E kw \in ProblemParameters : \E sel \in Selections : execute_Selector(kw, sel)

SpecOperation == InitOperation /\ [][NextOperation]_vars

\* ======================================================= a linear graph
\* Controller.run on the graph Generate(1, 3) -> Score(1, False, fn) ->
\* KeepBestN(1, True) built with append_operation: the ready-queue holds one
\* operation at a time, in graph order.  current_operation counts the
\* operations of the graph that have executed; predecessor stands for the
\* last of them, self for the one after it.
Stage == current_operation + 1

\* fn returns len(state['text']); the texts are what the parser made of the
\* language model's responses, their lengths are those of the scenario
TextLengths == {3, 7, 10}

\* get_thoughts of the operation studied
SelfThoughts ==
    IF self.kind = "ValidateAndImprove" THEN ValidateAndImprove_get_thoughts
    ELSE self.thoughts

\* Controller.run after current_operation.execute returned: the successor
\* can be executed, is appended to the queue and popped next; what it will
\* see of the operation before it is executed and get_thoughts()
Successor ==
    /\ Stage < 3
    /\ io.call = "execute"
    /\ io.outcome = "returned"
    /\ current_operation' = current_operation + 1
    /\ predecessor' = [executed |-> self.executed, thoughts |-> SelfThoughts]
    /\ self' = NoOperation
    /\ io' = NoIO
    /\ UNCHANGED << extVars, heap, dicts, predecessors, successors, executed, thoughts,
                    thought_ids, operations, roots, leaves, run_executed,
                    execution_queue, pc, error, started, re_executed,
                    completed, first_run, final_thoughts, call, built >>

NextPipeline ==
    \/ Stage = 1 /\ Generate_init
    \/ Stage = 1 /\ \E kw \in ProblemParameters :
                       \E ks \in [1..SelfNumPrompts -> 0..MaxGen] :
                          execute_Generate(kw, ks)
    \/ Stage = 2 /\ Score_init(FALSE, TRUE)
    \/ Stage = 2 /\ \E scores \in [1..Len(PreviousThoughts) -> TextLengths] :
                       execute_Score(scores)
    \/ Stage = 3 /\ KeepBestN_init(1, TRUE)
    \/ Stage = 3 /\ execute_KeepBestN
    \/ Stage > 1 /\ AddPredecessor
    \/ Successor

SpecPipeline == Init /\ [][NextPipeline]_vars

\* ===================================================== enhanced operations
\* One BaseOperation-derived operation on its own, behind one predecessor
\* operation whose thoughts are Thought or EnhancedThought objects.  Scores
\* and confidences are in hundredths.  Of a state map, key "a" stands for
\* content and key "b" for the other keys an operation writes.
ThoughtTypes == {"plan", "analysis", "refinement"}

\* a Thought that is not an EnhancedThought
NotEnhanced ==
    [is_enhanced |-> FALSE, thought_type |-> "", confidence |-> 0,
     refinement_count |-> 0, parent_thoughts |-> << >>]

EnhancedStore == [heap |-> heap, dicts |-> dicts, enhanced |-> enhanced]

\* EnhancedThought.__init__(state, thought_type); the new object is the last
EnhancedThought(st, state, thought_type) ==
    LET s1 == Thought([heap |-> st.heap, dicts |-> st.dicts], state)
    IN  [heap |-> s1.heap, dicts |-> s1.dicts,
         enhanced |-> Append(st.enhanced,
                             [is_enhanced |-> TRUE, thought_type |-> thought_type,
                              confidence |-> 50, refinement_count |-> 0,
                              parent_thoughts |-> << >>])]

\* previous_thoughts = [EnhancedThought(kwargs)] when there are none
Seeded(st, kw) ==
    LET sk == [st EXCEPT !.dicts = Append(@, kw)]
    IN  EnhancedThought(sk, Len(sk.dicts), "analysis")

\* the thoughts a transformation works on, and the objects after seeding
EnhancedInput(kw) ==
    IF Len(PreviousThoughts) = 0
    THEN LET s1 == Seeded(EnhancedStore, kw)
         IN  [st |-> s1, thoughts |-> << Len(s1.heap) >>, seeds |-> 1]
    ELSE [st |-> EnhancedStore, thoughts |-> PreviousThoughts, seeds |-> 0]

\* if not isinstance(thought, EnhancedThought): EnhancedThought(thought.state,
\* "analysis") with _score assigned directly; i is then the new object
Converted(st, i) ==
    IF st.enhanced[i].is_enhanced THEN [st |-> st, thought |-> i]
    ELSE LET s1 == EnhancedThought(st, st.heap[i].state, "analysis")
             n  == Len(s1.heap)
         IN  [st |-> [s1 EXCEPT !.heap[n].score = st.heap[i].score], thought |-> n]

Min(a, b) == IF a < b THEN a ELSE b

\* thought.state.copy() with content and one more key assigned
CopiedState(st, i, content) ==
    [st EXCEPT !.dicts = Append(@, [st.dicts[st.heap[i].state]
                                       EXCEPT !["a"] = content, !["b"] = "x"])]

\* BaseOperation.__init__ and the subclass constructors
BaseFields(kind, max_refinements, quality_threshold) ==
    [executed |-> FALSE, thoughts |-> << >>, kind |-> kind, num_predecessors |-> 0,
     max_refinements |-> max_refinements, quality_threshold |-> quality_threshold,
     improvement_threshold |-> 10, merge_strategy |-> "complementary"]

BaseKinds == {"SimpleRefine", "SmartAggregate", "SimpleBacktrack"}

\* BaseOperation.execute around a result r of _execute: no assertion on
\* can_be_executed; _execute, then self.executed = True
BaseExecute(r, answers, kwargs) ==
    /\ io' = [call |-> "execute", outcome |-> "returned", queries |-> r.queries,
              seeds |-> r.seeds, answers |-> answers, kwargs |-> kwargs,
              given |-> << >>]
    /\ heap' = r.st.heap
    /\ dicts' = r.st.dicts
    /\ enhanced' = r.st.enhanced
    /\ self' = [self EXCEPT !.thoughts = r.thoughts, !.executed = TRUE]
    /\ UNCHANGED << engineVars, predecessor, tracker, emitter >>

\* ----------------------------------------------------------- SimpleRefine
SimpleRefine_init(max_refinements) ==
    Constructed(BaseFields("SimpleRefine", max_refinements, 0), "SimpleRefine",
                << max_refinements >>)

\* what lm.query gives for one refinement prompt: a text, or nothing (an
\* empty response or an exception, both replaced by the marked old content)
RefineAnswers == {"text", "none"}

\* the refined thought: refinement_count, parent_thoughts and confidence are
\* taken from the thought t it refines; the new object is the last of s1
RefinedFrom(s1, st, t) ==
    LET n == Len(s1.heap)
    IN  [s1 EXCEPT !.enhanced[n].refinement_count = st.enhanced[t].refinement_count + 1,
                   !.enhanced[n].parent_thoughts = << t >>,
                   !.enhanced[n].confidence = Min(100, st.enhanced[t].confidence + 10)]

\* EnhancedThought(refined_state, "refinement") over the copied state
Refined(sd, st, t) == RefinedFrom(EnhancedThought(sd, Len(sd.dicts), "refinement"), st, t)

\* one pass of the loop over the converted thought c: a thought below
\* max_refinements is refined with one query, any other is taken over
RefineOne(c, answer) ==
    IF c.st.enhanced[c.thought].refinement_count < self.max_refinements
    THEN [st |-> Refined(CopiedState(c.st, c.thought,
                                     IF answer = "text" THEN "x" ELSE "y"),
                         c.st, c.thought),
          thought |-> Len(c.st.heap) + 1, queries |-> 1]
    ELSE [st |-> c.st, thought |-> c.thought, queries |-> 0]

\* the loop of SimpleRefine._execute from the j-th thought on
RECURSIVE RefineLoop(_, _, _, _, _, _)
RefineLoop(st, ts, answers, j, out, queries) ==
    IF j > Len(ts) THEN [st |-> st, thoughts |-> out, queries |-> queries]
    ELSE LET r == RefineOne(Converted(st, ts[j]), answers[j])
         IN  RefineLoop(r.st, ts, answers, j + 1, Append(out, r.thought),
                        queries + r.queries)

SimpleRefine_execute(kw, answers) ==
    LET in == EnhancedInput(kw)
        r  == RefineLoop(in.st, in.thoughts, answers, 1, << >>, 0)
    IN  [st |-> r.st, thoughts |-> r.thoughts, queries |-> r.queries, seeds |-> in.seeds]

execute_SimpleRefine(kw, answers) ==
    /\ Executable("SimpleRefine")
    /\ BaseExecute(SimpleRefine_execute(kw, answers), answers, kw)

\* --------------------------------------------------------- SmartAggregate
SmartAggregate_init ==
    Constructed(BaseFields("SmartAggregate", 0, 0), "SmartAggregate", << >>)

\* the conversion loop: every Thought that is not enhanced is replaced
RECURSIVE ConvertEach(_, _, _)
ConvertEach(st, ts, out) ==
    IF ts = << >> THEN [st |-> st, thoughts |-> out]
    ELSE LET c == Converted(st, Head(ts))
         IN  ConvertEach(c.st, Tail(ts), Append(out, c.thought))

\* grouped[thought_type]
Grouped(st, ts, thought_type) ==
    SelectSeq(ts, LAMBDA t : st.enhanced[t].thought_type = thought_type)

\* the thoughts of every other type; ThoughtTypes has one such type, so the
\* order of its group is the order of the list
Ungrouped(st, ts) ==
    SelectSeq(ts, LAMBDA t : st.enhanced[t].thought_type \notin {"plan", "analysis"})

RECURSIVE SumConfidence(_, _)
SumConfidence(st, ts) ==
    IF ts = << >> THEN 0
    ELSE st.enhanced[Head(ts)].confidence + SumConfidence(st, Tail(ts))

\* _merge_plans, _merge_analyses and _create_conclusion: a new thought over
\* a new state map, with the given type, confidence and _score, and the
\* thoughts merged as its parents
MergedThought(st, ts, thought_type, confidence, score) ==
    LET sd == [st EXCEPT !.dicts = Append(@, [k \in Keys |->
                                                 IF k = "a" THEN "x" ELSE "y"])]
        s1 == EnhancedThought(sd, Len(sd.dicts), thought_type)
        n  == Len(s1.heap)
    IN  [s1 EXCEPT !.enhanced[n].confidence = confidence,
                   !.heap[n].score = score,
                   !.enhanced[n].parent_thoughts = ts]

\* one group merged into the results: several thoughts become one new
\* thought, a single thought is taken over as it is
GroupMerged(st, group, thought_type, score, out) ==
    IF Len(group) > 1
    THEN LET s1 == MergedThought(st, group, thought_type,
                                 SumConfidence(st, group) \div Len(group), score)
         IN  [st |-> s1, thoughts |-> Append(out, Len(s1.heap))]
    ELSE [st |-> st, thoughts |-> out \o group]

\* the "plan" group merged first
WithPlans(c) ==
    GroupMerged(c.st, Grouped(c.st, c.thoughts, "plan"), "plan", 80, << >>)

\* then the "analysis" group
WithAnalyses(c, p) ==
    GroupMerged(p.st, Grouped(p.st, c.thoughts, "analysis"), "analysis", 85, p.thoughts)

\* several merged thoughts get a conclusion appended
Conclusion(st, m) ==
    IF Len(m) > 1
    THEN LET s1 == MergedThought(st, m, "conclusion", 90, 90)
         IN  [st |-> s1, thoughts |-> Append(m, Len(s1.heap))]
    ELSE [st |-> st, thoughts |-> m]

\* the other types are taken over after the two groups
Concluded(c, a) == Conclusion(a.st, a.thoughts \o Ungrouped(a.st, c.thoughts))

Aggregated(c) == Concluded(c, WithAnalyses(c, WithPlans(c)))

SmartAggregate_execute(kw) ==
    LET in == EnhancedInput(kw)
    IN  IF Len(in.thoughts) <= 1
        THEN [st |-> in.st, thoughts |-> in.thoughts, queries |-> 0, seeds |-> in.seeds]
        ELSE LET r == Aggregated(ConvertEach(in.st, in.thoughts, << >>))
             IN  [st |-> r.st, thoughts |-> r.thoughts,
                  queries |-> 0, seeds |-> in.seeds]

execute_SmartAggregate(kw) ==
    /\ Executable("SmartAggregate")
    /\ BaseExecute(SmartAggregate_execute(kw), << >>, kw)

\* -------------------------------------------------------- SimpleBacktrack
SimpleBacktrack_init ==
    Constructed(BaseFields("SimpleBacktrack", 0, 60), "SimpleBacktrack", << >>)

RECURSIVE SumScores(_, _)
SumScores(st, ts) ==
    IF ts = << >> THEN 0 ELSE st.heap[Head(ts)].score + SumScores(st, Tail(ts))

\* avg_quality < self.quality_threshold
BelowThreshold(st, ts) == SumScores(st, ts) < self.quality_threshold * Len(ts)

\* the loop of the backtracking branch from the j-th thought on
RECURSIVE BacktrackLoop(_, _, _, _)
BacktrackLoop(st, ts, j, out) ==
    IF j > Len(ts) THEN [st |-> st, thoughts |-> out]
    ELSE LET c  == Converted(st, ts[j])
             t  == c.thought
             sd == CopiedState(c.st, t, "y")
             s1 == EnhancedThought(sd, Len(sd.dicts), "analysis")
             n  == Len(s1.heap)
             s2 == [s1 EXCEPT
                      !.enhanced[n].confidence = Min(100, c.st.enhanced[t].confidence + 20),
                      !.heap[n].score = Min(100, c.st.heap[t].score + 20),
                      !.enhanced[n].parent_thoughts = << t >>]
         IN  BacktrackLoop(s2, ts, j + 1, Append(out, n))

SimpleBacktrack_execute(kw) ==
    LET in == EnhancedInput(kw)
    IN  IF BelowThreshold(in.st, in.thoughts)
        THEN LET r == BacktrackLoop(in.st, in.thoughts, 1, << >>)
             IN  [st |-> r.st, thoughts |-> r.thoughts, queries |-> 0, seeds |-> in.seeds]
        ELSE [st |-> in.st, thoughts |-> in.thoughts, queries |-> 0, seeds |-> in.seeds]

execute_SimpleBacktrack(kw) ==
    /\ Executable("SimpleBacktrack")
    /\ BaseExecute(SimpleBacktrack_execute(kw), << >>, kw)

\* The predecessor holds up to MaxPrev thoughts, each a Thought or an
\* EnhancedThought of some type, refined or not, with a score below or above
\* the default quality threshold, and was executed or not.
EnhancedProfiles ==
    { NotEnhanced } \cup
    { [is_enhanced |-> TRUE, thought_type |-> ty, confidence |-> 50,
       refinement_count |-> rc, parent_thoughts |-> << >>] :
      ty \in ThoughtTypes, rc \in 0..1 }

QualityScores == {50, 70}

InitEnhanced ==
    /\ EngineInit
    /\ self = NoOperation
    /\ io = NoIO
    /\ tracker = NoTracker
    /\ emitter = << >>
    /\ \E m \in 0..MaxPrev :
          /\ heap \in { [i \in 1..m |-> [NewThought EXCEPT !.id = i - 1, !.state = i,
                                                          !.score = ss[i]]] :
                        ss \in [1..m -> QualityScores] }
          /\ dicts = [i \in 1..m |-> InputState(i)]
          /\ enhanced \in [1..m -> EnhancedProfiles]
          /\ predecessor \in [executed : BOOLEAN, thoughts : {[i \in 1..m |-> i]}]

NextEnhanced ==
    \/ \E n \in 0..MaxN : SimpleRefine_init(n)
    \/ SmartAggregate_init
    \/ SimpleBacktrack_init
    \/ AddPredecessor
    \/ \E kw \in ProblemParameters :
          \E answers \in [1..(IF Len(PreviousThoughts) = 0 THEN 1
                               ELSE Len(PreviousThoughts)) -> RefineAnswers] :
             execute_SimpleRefine(kw, answers)
    \/ \E kw \in ProblemParameters : execute_SmartAggregate(kw)
    \/ \E kw \in ProblemParameters : execute_SimpleBacktrack(kw)

SpecEnhanced == InitEnhanced /\ [][NextEnhanced]_vars

\* ============================================================ tracked run
\* create_tracked_controller on a built graph, then one call of the tracked
\* run.  Every operation of the engine model is of one class, so every
\* tracker entry has the same type.
OperationType == "Generate"

\* initialize_tracking: one entry per operation of graph.operations, in order
initialize_tracking ==
    [operations_data |->
        [i \in 1..Len(operations) |->
            [status |-> "pending", type |-> OperationType, index |-> i - 1,
             thoughts_generated |-> 0]],
     execution_events |-> << >>]

\* _find_operation_data: the first entry of the operation's type that is
\* pending or running (0: None)
_find_operation_data(trk, op) ==
    LET open == { i \in 1..Len(trk.operations_data) :
                     /\ trk.operations_data[i].type = OperationType
                     /\ trk.operations_data[i].status \in {"pending", "running"} }
    IN  IF open = {} THEN 0 ELSE CHOOSE i \in open : \A j \in open : i <= j

\* an entry of execution_events about entry e (op: history, the operation
\* the tracker was called with)
Event(e, name, n, op) ==
    [thoughts |-> n, op |-> op, operation_id |-> e, event |-> name]

\* the entry found gets the status and the count, and the event is appended
Recorded(trk, op, status, name, n) ==
    LET e == _find_operation_data(trk, op)
    IN  IF e = 0 THEN trk
        ELSE [operations_data |->
                 [trk.operations_data EXCEPT
                     ![e].status = status,
                     ![e].thoughts_generated = IF name = "completed" THEN n ELSE @],
              execution_events |-> Append(trk.execution_events, Event(e, name, n, op))]

start_operation(trk, op) == Recorded(trk, op, "running", "started", 0)

complete_operation(trk, op, thoughts_generated) ==
    Recorded(trk, op, "completed", "completed", thoughts_generated)

fail_operation(trk, op) == Recorded(trk, op, "failed", "failed", 0)

\* the graph is built before the tracker is created
TrackedBuild == tracker = NoTracker /\ Build

create_tracked_controller ==
    /\ pc = "idle"
    /\ tracker = NoTracker
    /\ Len(operations) > 0
    /\ tracker' = initialize_tracking
    /\ UNCHANGED << engineVars, heap, dicts, predecessor, self, io, enhanced, emitter >>

Tracked == tracker # NoTracker

\* tracked_run up to the while loop of the original run
TrackedRunStart ==
    /\ pc = "idle"
    /\ Tracked
    /\ IF RootsIsNotNone
       THEN /\ execution_queue' = InitialQueue
            /\ pc' = "loop"
            /\ error' = ""
       ELSE /\ execution_queue' = execution_queue
            /\ pc' = "aborted"
            /\ error' = "NoRoot"
    /\ current_operation' = 0
    /\ started' = << >>
    /\ first_run' = (pc = "idle")
    /\ final_thoughts' = NoFinal
    /\ built' = NoBuilt
    /\ UNCHANGED << objVars, edgeVars, executed, thoughts, thought_ids, graphVars,
                    run_executed, re_executed, completed, call >>

\* tracked_execute: start_operation, then the original execute up to the
\* call of _execute; its failed assertion is reported by fail_operation
TrackedExecuteStart ==
    /\ pc = "loop"
    /\ Tracked
    /\ execution_queue # << >>
    /\ current_operation' = Head(execution_queue)
    /\ execution_queue' = Tail(execution_queue)
    /\ IF can_be_executed(executed, Head(execution_queue))
       THEN /\ pc' = "executing"
            /\ error' = error
            /\ started' = Append(started, Head(execution_queue))
            /\ tracker' = start_operation(tracker, Head(execution_queue))
       ELSE /\ pc' = "aborted"
            /\ error' = "NotReady"
            /\ started' = started
            /\ tracker' = fail_operation(start_operation(tracker, Head(execution_queue)),
                                         Head(execution_queue))
    /\ UNCHANGED << heap, dicts, predecessor, self, io, enhanced, emitter, built,
                    edgeVars, executed, thoughts, thought_ids, graphVars,
                    run_executed, re_executed, completed, first_run,
                    final_thoughts, call >>

\* the original execute returns: complete_operation with the number of
\* thoughts the operation holds, then run scans the successors
TrackedExecuteReturn(ks) ==
    /\ pc = "executing"
    /\ Tracked
    /\ GenerateIds(current_operation, ks) <= MaxThoughts
    /\ thoughts' = [thoughts EXCEPT ![current_operation] =
                        GenerateThoughts(current_operation, ks)]
    /\ thought_ids' = GenerateIds(current_operation, ks)
    /\ executed' = ExecutedOnReturn(current_operation)
    /\ re_executed' = [re_executed EXCEPT ![current_operation] =
                           @ \/ executed[current_operation]]
    /\ tracker' = complete_operation(tracker, current_operation,
                                     Len(GenerateThoughts(current_operation, ks)))
    /\ LET r == SuccessorsEnqueued(current_operation, execution_queue,
                                   ExecutedOnReturn(current_operation))
       IN  /\ execution_queue' = r.queue
           /\ pc' = IF r.ok THEN "loop" ELSE "aborted"
           /\ error' = IF r.ok THEN error ELSE "SuccessorNotInGraph"
    /\ UNCHANGED << heap, dicts, predecessor, self, io, enhanced, emitter, built,
                    edgeVars, graphVars, run_executed, current_operation,
                    started, completed, first_run, final_thoughts, call >>

\* the original execute raises: fail_operation, and the exception leaves run
TrackedExecuteRaise(ks) ==
    /\ pc = "executing"
    /\ Tracked
    /\ GenerateIds(current_operation, ks) <= MaxThoughts
    /\ thoughts' = [thoughts EXCEPT ![current_operation] =
                        GenerateThoughts(current_operation, ks)]
    /\ thought_ids' = GenerateIds(current_operation, ks)
    /\ executed' = ExecutedOnRaise(current_operation)
    /\ tracker' = fail_operation(tracker, current_operation)
    /\ pc' = "aborted"
    /\ error' = "Transformation"
    /\ UNCHANGED << heap, dicts, predecessor, self, io, enhanced, emitter, built,
                    edgeVars, graphVars, run_executed, execution_queue,
                    current_operation, started, re_executed, completed,
                    first_run, final_thoughts, call >>

\* the queue is empty: the original run returns, and so does tracked_run
TrackedRunFinish == Tracked /\ RunFinish

NextTracked ==
    \/ TrackedBuild
    \/ create_tracked_controller
    \/ TrackedRunStart
    \/ TrackedExecuteStart
    \/ pc = "executing" /\ \E ks \in ParseCounts(current_operation) :
          TrackedExecuteReturn(ks)
    \/ pc = "executing" /\ \E ks \in PartialCounts(current_operation) :
          TrackedExecuteRaise(ks)
    \/ TrackedRunFinish

SpecTracked == Init /\ [][NextTracked]_vars

\* ============================================================ EventEmitter
\* Threads call EventEmitter() or get_emitter() at the same time, and a
\* thread that got an instance emits an event outside a request context.
\* A step is one read or write of a class attribute, of the module global
\* or of an instance attribute, or one lock operation.
Threads == 1..MaxThreads

\* a thread that has not called yet: at is its position, fn the function
\* it called, obj the instance its constructor call works on, result what
\* the call returned
NoThread == [result |-> 0, at |-> "idle", fn |-> "", obj |-> 0]

\* an instance right after object.__new__: no attribute is set
NewInstance == [tracker |-> 0, _initialized |-> FALSE, buffer |-> 0, enabled |-> FALSE]

\* objects: the EventEmitter instances; buffers: the number of events in
\* each EventBuffer; trackers: the ExecutionTracker objects created
InitEmitter ==
    /\ EngineInit
    /\ heap = << >>
    /\ dicts = << >>
    /\ predecessor = NoPredecessor
    /\ self = NoOperation
    /\ io = NoIO
    /\ enhanced = << >>
    /\ tracker = NoTracker
    /\ emitter = [_instance |-> 0, _lock |-> 0, _emitter |-> 0, _emitter_lock |-> 0,
                  objects |-> << >>, buffers |-> << >>, trackers |-> 0,
                  threads |-> [t \in Threads |-> NoThread]]

EmitterFrame ==
    UNCHANGED << engineVars, heap, dicts, predecessor, self, io, enhanced, tracker >>

At(t, label) == emitter.threads[t].at = label

\* the constructor call of thread t returns: to the caller of EventEmitter(),
\* or into get_emitter
Returns(t) == IF emitter.threads[t].fn = "EventEmitter" THEN "done" ELSE "get_assign"

\* a thread calls EventEmitter()
call_EventEmitter(t) ==
    /\ At(t, "idle")
    /\ emitter' = [emitter EXCEPT !.threads[t].at = "new_check",
                                  !.threads[t].fn = "EventEmitter"]
    /\ EmitterFrame

\* __new__: if cls._instance is None
new_check(t) ==
    /\ At(t, "new_check")
    /\ emitter' = IF emitter._instance = 0
                  THEN [emitter EXCEPT !.threads[t].at = "new_lock"]
                  ELSE [emitter EXCEPT !.threads[t].at = "init_check",
                                       !.threads[t].obj = emitter._instance]
    /\ EmitterFrame

\* with cls._lock
new_lock(t) ==
    /\ At(t, "new_lock")
    /\ emitter._lock = 0
    /\ emitter' = [emitter EXCEPT !._lock = t, !.threads[t].at = "new_recheck"]
    /\ EmitterFrame

\* if cls._instance is None: cls._instance = super().__new__(cls)
new_recheck(t) ==
    /\ At(t, "new_recheck")
    /\ emitter' = IF emitter._instance = 0
                  THEN [emitter EXCEPT !.objects = Append(@, NewInstance),
                                       !._instance = Len(emitter.objects) + 1,
                                       !.threads[t].at = "new_unlock"]
                  ELSE [emitter EXCEPT !.threads[t].at = "new_unlock"]
    /\ EmitterFrame

\* the lock is released; return cls._instance, and __init__ is called on it
new_unlock(t) ==
    /\ At(t, "new_unlock")
    /\ emitter' = [emitter EXCEPT !._lock = 0,
                                  !.threads[t].at = "init_check",
                                  !.threads[t].obj = emitter._instance]
    /\ EmitterFrame

\* __init__: if hasattr(self, '_initialized'): return
init_check(t) ==
    /\ At(t, "init_check")
    /\ emitter' =
          IF emitter.objects[emitter.threads[t].obj]._initialized
          THEN [emitter EXCEPT !.threads[t].at = Returns(t),
                               !.threads[t].result =
                                   IF emitter.threads[t].fn = "EventEmitter"
                                   THEN emitter.threads[t].obj ELSE @]
          ELSE [emitter EXCEPT !.threads[t].at = "init_flag"]
    /\ EmitterFrame

\* self._initialized = True
init_flag(t) ==
    /\ At(t, "init_flag")
    /\ emitter' = [emitter EXCEPT !.objects[emitter.threads[t].obj]._initialized = TRUE,
                                  !.threads[t].at = "init_buffer"]
    /\ EmitterFrame

\* self.buffer = EventBuffer()
init_buffer(t) ==
    /\ At(t, "init_buffer")
    /\ emitter' = [emitter EXCEPT !.buffers = Append(@, 0),
                                  !.objects[emitter.threads[t].obj].buffer =
                                      Len(emitter.buffers) + 1,
                                  !.threads[t].at = "init_tracker"]
    /\ EmitterFrame

\* self.tracker = ExecutionTracker()
init_tracker(t) ==
    /\ At(t, "init_tracker")
    /\ emitter' = [emitter EXCEPT !.trackers = @ + 1,
                                  !.objects[emitter.threads[t].obj].tracker =
                                      emitter.trackers + 1,
                                  !.threads[t].at = "init_rest"]
    /\ EmitterFrame

\* the assignments to current_session, current_workflow, enabled,
\* debug_mode and event_callbacks; __init__ returns
init_rest(t) ==
    /\ At(t, "init_rest")
    /\ emitter' = [emitter EXCEPT !.objects[emitter.threads[t].obj].enabled = TRUE,
                                  !.threads[t].at = Returns(t),
                                  !.threads[t].result =
                                      IF emitter.threads[t].fn = "EventEmitter"
                                      THEN emitter.threads[t].obj ELSE @]
    /\ EmitterFrame

\* a thread calls get_emitter()
call_get_emitter(t) ==
    /\ At(t, "idle")
    /\ emitter' = [emitter EXCEPT !.threads[t].at = "get_check",
                                  !.threads[t].fn = "get_emitter"]
    /\ EmitterFrame

\* if _emitter is None: ...; otherwise return _emitter
get_check(t) ==
    /\ At(t, "get_check")
    /\ emitter' = IF emitter._emitter = 0
                  THEN [emitter EXCEPT !.threads[t].at = "get_lock"]
                  ELSE [emitter EXCEPT !.threads[t].at = "done",
                                       !.threads[t].result = emitter._emitter]
    /\ EmitterFrame

\* with _emitter_lock
get_lock(t) ==
    /\ At(t, "get_lock")
    /\ emitter._emitter_lock = 0
    /\ emitter' = [emitter EXCEPT !._emitter_lock = t, !.threads[t].at = "get_recheck"]
    /\ EmitterFrame

\* if _emitter is None: EventEmitter() is called
get_recheck(t) ==
    /\ At(t, "get_recheck")
    /\ emitter' = IF emitter._emitter = 0
                  THEN [emitter EXCEPT !.threads[t].at = "new_check"]
                  ELSE [emitter EXCEPT !.threads[t].at = "get_unlock"]
    /\ EmitterFrame

\* _emitter = EventEmitter()
get_assign(t) ==
    /\ At(t, "get_assign")
    /\ emitter' = [emitter EXCEPT !._emitter = emitter.threads[t].obj,
                                  !.threads[t].at = "get_unlock"]
    /\ EmitterFrame

\* the lock is released; return _emitter
get_unlock(t) ==
    /\ At(t, "get_unlock")
    /\ emitter' = [emitter EXCEPT !._emitter_lock = 0,
                                  !.threads[t].at = "done",
                                  !.threads[t].result = emitter._emitter]
    /\ EmitterFrame

\* emit_event on the instance the thread got, outside a request context:
\* an attribute that is not set yet raises AttributeError, otherwise
\* self.buffer.add_event is called
emit_event(t) ==
    /\ At(t, "done")
    /\ LET o == emitter.objects[emitter.threads[t].result]
       IN  emitter' = IF o.enabled
                      THEN [emitter EXCEPT !.buffers[o.buffer] = @ + 1,
                                           !.threads[t].at = "emitted"]
                      ELSE [emitter EXCEPT !.threads[t].at = "raised"]
    /\ EmitterFrame

NextEmitter ==
    \/ \E t \in Threads : call_EventEmitter(t)
    \/ \E t \in Threads : new_check(t)
    \/ \E t \in Threads : new_lock(t)
    \/ \E t \in Threads : new_recheck(t)
    \/ \E t \in Threads : new_unlock(t)
    \/ \E t \in Threads : init_check(t)
    \/ \E t \in Threads : init_flag(t)
    \/ \E t \in Threads : init_buffer(t)
    \/ \E t \in Threads : init_tracker(t)
    \/ \E t \in Threads : init_rest(t)
    \/ \E t \in Threads : call_get_emitter(t)
    \/ \E t \in Threads : get_check(t)
    \/ \E t \in Threads : get_lock(t)
    \/ \E t \in Threads : get_recheck(t)
    \/ \E t \in Threads : get_assign(t)
    \/ \E t \in Threads : get_unlock(t)
    \/ \E t \in Threads : emit_event(t)

SpecEmitter == InitEmitter /\ [][NextEmitter]_vars

\* ================================================================ claims
\* readiness of o, read off the predecessor list and the flags
AllPredecessorsExecuted(o) ==
    \A i \in 1..Len(predecessors[o]) : executed[predecessors[o][i]]

PredecessorSet(o) == { predecessors[o][i] : i \in 1..Len(predecessors[o]) }
SuccessorSet(o)   == { successors[o][i] : i \in 1..Len(successors[o]) }
SeqSet(s)         == { s[i] : i \in 1..Len(s) }

RECURSIVE Closure(_)
Closure(S) ==
    LET T == S \cup UNION { SuccessorSet(o) : o \in S }
    IN  IF T = S THEN S ELSE Closure(T)

ReachableFromRoots == Closure(SeqSet(roots))

\* The operations the scheduler can ever get to: a registered operation
\* without predecessors, or an operation with predecessors all of which are
\* such operations (least fixpoint).
RECURSIVE GroundedFrom(_)
GroundedFrom(S) ==
    LET T == S \cup { o \in Ops :
                       IF Len(predecessors[o]) = 0
                       THEN InList(o, operations)
                       ELSE PredecessorSet(o) \subseteq S }
    IN  IF T = S THEN S ELSE GroundedFrom(T)

Grounded == GroundedFrom({})

\* C2 (as stated): after run has returned, an operation has executed = TRUE
\* exactly when it is reachable from a root along successor edges.
C2_ReachableExecuted ==
    pc = "done" => \A o \in Ops : executed[o] = (o \in ReachableFromRoots)

\* C2 (amended): after run has returned, an operation has executed = TRUE
\* exactly when it is a registered operation without predecessors or all its
\* predecessors have executed = TRUE by the same rule; an operation on or
\* behind a cycle, or behind an operation that never ran, stays FALSE even
\* when it is reachable from a root.
C2_GroundedExecuted ==
    pc = "done" => \A o \in Ops : executed[o] = (o \in Grounded)

C2_Witness ==
    /\ pc = "done"
    /\ \E o \in Ops : executed[o]
    /\ \E o \in ReachableFromRoots : ~executed[o]

\* C3: during a run no operation is put on the ready-queue more than once
\* (started holds the operations popped so far in this run).
C3_EnqueuedOnce ==
    \A o \in Ops : Count(o, started) + Count(o, execution_queue) <= 1

\* C4: no operation's transformation runs to completion a second time,
\* whatever runs are made on the graph.
C4_ExecutedOnce ==
    \A o \in Ops : ~re_executed[o]

\* a step of a run keeps every operation that can be executed executable
ReadyStaysReady ==
    pc \in {"loop", "executing"} =>
        \A o \in Ops : AllPredecessorsExecuted(o) => AllPredecessorsExecuted(o)'

\* C5: during a run, an operation that can be executed can still be executed
\* after every step of the run.
C5_ReadyStaysReady == [][ReadyStaysReady]_vars

C5_Witness ==
    /\ pc = "loop"
    /\ \E o \in Ops :
          /\ Len(predecessors[o]) > 0
          /\ AllPredecessorsExecuted(o)
          /\ InList(o, started)

\* readiness of the operation of the last direct execute call, when called
ReadyWhenCalled ==
    \A i \in 1..Len(predecessors[call.op]) :
        call.executed_before[predecessors[call.op][i]]

\* C6: execute called while a predecessor has executed = FALSE fails before
\* the transformation runs: no flag changes (executed stays FALSE), no
\* thought is made; execute called with all predecessors executed does not
\* fail that way, and when the transformation returns executed is TRUE.
C6_ExecutePrecondition ==
    call.outcome # "none" =>
        /\ ~ReadyWhenCalled =>
              /\ call.outcome = "fatal"
              /\ executed = call.executed_before
              /\ thoughts[call.op] = call.thoughts_before
              /\ thought_ids = call.ids_before
        /\ ReadyWhenCalled => call.outcome # "fatal"
        /\ (ReadyWhenCalled /\ call.outcome = "returned") => executed[call.op]

C6_Witness ==
    /\ call.outcome = "fatal"
    /\ ~ReadyWhenCalled
    /\ ~executed[call.op]
    /\ \E o \in Ops : executed[o]

\* C7: when a transformation raises during run, the failing operation has
\* executed = FALSE, every operation started before it in the run has
\* executed = TRUE, run_executed is FALSE and get_final_thoughts fails.
C7_AbortKeepsFlags ==
    (pc = "aborted" /\ error = "Transformation") =>
        /\ ~executed[current_operation]
        /\ \A i \in 1..(Len(started) - 1) : executed[started[i]]
        /\ ~run_executed
        /\ final_thoughts.status # "returned"

\* C8: run on a graph without a root fails and leaves run_executed FALSE.
C8_NoRootFatal ==
    (Len(roots) = 0 /\ pc # "idle") =>
        (pc = "aborted" /\ error = "NoRoot" /\ ~run_executed)

\* C9: get_final_thoughts called while no run has returned fails and hands
\* out nothing.
C9_FinalThoughtsNeedRun ==
    (final_thoughts.status # "none" /\ ~completed) =>
        final_thoughts = [status |-> "fatal", value |-> << >>]

C9_Witness ==
    /\ final_thoughts.status = "fatal"
    /\ pc = "aborted"
    /\ \E o \in SeqSet(leaves) : thoughts[o] # << >>

\* C10: once a run has returned, get_final_thoughts returns one list per
\* entry of graph.leaves, in the order of leaves, the i-th being the thought
\* list of the i-th leaf.
C10_FinalThoughtsPerLeaf ==
    (final_thoughts.status # "none" /\ completed) =>
        /\ final_thoughts.status = "returned"
        /\ Len(final_thoughts.value) = Len(leaves)
        /\ \A i \in 1..Len(leaves) : final_thoughts.value[i] = thoughts[leaves[i]]

C10_Witness ==
    /\ final_thoughts.status = "returned"
    /\ Len(leaves) = 2
    /\ thoughts[leaves[1]] # thoughts[leaves[2]]

\* a from_thought call hands out a thought with another id, an equal state
\* map and the values and flags of the thought it was given
CopiedExactly ==
    \A i \in 1..Len(heap) :
        call_from_thought(i) =>
            LET t == heap[i]
                c == heap'[Len(heap')]
            IN  /\ c.id # t.id
                /\ dicts'[c.state] = dicts[t.state]
                /\ c.score = t.score /\ c.valid = t.valid /\ c.solved = t.solved
                /\ c.scored = t.scored
                /\ c.validated = t.validated
                /\ c.compared_to_ground_truth = t.compared_to_ground_truth

\* C13: Thought.from_thought(t) returns a thought whose id differs from
\* t.id, whose state equals t.state and whose score, valid, solved, scored,
\* validated and compared_to_ground_truth are those of t.
C13_FromThoughtCopies == [][CopiedExactly]_vars

C13_Witness ==
    \E j \in 1..Len(heap) :
        /\ heap[j].source # 0
        /\ ~heap[j].scored /\ ~heap[j].validated
        /\ heap[j].compared_to_ground_truth
        /\ heap[j].score = MaxScore
        /\ ~IsEmpty(dicts[heap[j].state])

\* i was made from j by from_thought, or j from i
Derived(i, j) == heap[i].source = j \/ heap[j].source = i

\* a write to the state map of one of the two leaves the other's as it was
WriteStaysLocal ==
    \A j \in 1..Len(heap) : \A k \in Keys : \A v \in Vals :
        set_state_item(j, k, v) =>
            \A i \in 1..Len(heap) :
                Derived(i, j) => dicts'[heap[i].state] = dicts[heap[i].state]

\* C14: a thought made by from_thought does not alias its source: a later
\* change to the state map of either leaves the state map of the other
\* unchanged.
C14_NoAliasing == [][WriteStaysLocal]_vars

\* the operation studied was executed and its transformation returned
Returned(kind) ==
    io.call = "execute" /\ io.outcome = "returned" /\ self.kind = kind

\* the call of execute on the operation studied has ended
Ended(kind) == io.call = "execute" /\ self.kind = kind

\* position of x in the list s of distinct elements
PositionIn(x, s) == CHOOSE i \in 1..Len(s) : s[i] = x

\* the predecessor thoughts the thoughts of the operation are copies of
KeptSources == { heap[self.thoughts[i]].source : i \in 1..Len(self.thoughts) }
Discarded   == SeqSet(PreviousThoughts) \ KeptSources

\* C11: KeepBestN(n, higher_is_better = true) executed over at least n
\* scored predecessor thoughts holds exactly n thoughts, copies of n
\* different predecessor thoughts; every kept thought's score is >= every
\* discarded thought's score; among equal scores the earlier predecessor
\* thoughts are the kept ones and the kept ones stand in predecessor order.
C11_KeepBestNSelects ==
    (Returned("KeepBestN") /\ self.higher_is_better
        /\ Len(PreviousThoughts) >= self.n) =>
        /\ Len(self.thoughts) = self.n
        /\ Cardinality(KeptSources) = self.n
        /\ KeptSources \subseteq SeqSet(PreviousThoughts)
        /\ \A i \in 1..Len(self.thoughts) :
              heap[self.thoughts[i]].score = heap[heap[self.thoughts[i]].source].score
        /\ \A k \in KeptSources : \A d \in Discarded :
              /\ heap[k].score >= heap[d].score
              /\ heap[k].score = heap[d].score =>
                    PositionIn(k, PreviousThoughts) < PositionIn(d, PreviousThoughts)
        /\ \A i, j \in 1..Len(self.thoughts) :
              (i < j /\ heap[self.thoughts[i]].score = heap[self.thoughts[j]].score) =>
                  PositionIn(heap[self.thoughts[i]].source, PreviousThoughts)
                      < PositionIn(heap[self.thoughts[j]].source, PreviousThoughts)

C11_Witness ==
    /\ Returned("KeepBestN")
    /\ self.higher_is_better
    /\ Len(PreviousThoughts) > self.n
    /\ \E k \in KeptSources : \E d \in Discarded : heap[k].score = heap[d].score

\* C12: KeepBestN(n) with n < 1 fails in the constructor and no operation
\* comes out of it; execute on a KeepBestN with a predecessor thought that
\* has scored = FALSE fails, executed stays FALSE and the thought list empty.
C12_KeepBestNRejects ==
    /\ (io.call = "KeepBestN" /\ io.answers[1] < 1) =>
          (io.outcome = "fatal" /\ self = NoOperation)
    /\ self.kind = "KeepBestN" => self.n >= 1
    /\ (Ended("KeepBestN")
           /\ \E i \in 1..Len(PreviousThoughts) : ~heap[PreviousThoughts[i]].scored) =>
          /\ io.outcome = "fatal"
          /\ ~self.executed
          /\ self.thoughts = << >>
          /\ Len(heap) = Len(predecessor.thoughts)

C12_Witness ==
    /\ Ended("KeepBestN")
    /\ predecessor.executed
    /\ io.outcome = "fatal"
    /\ \E i, j \in 1..Len(PreviousThoughts) :
          heap[PreviousThoughts[i]].scored /\ ~heap[PreviousThoughts[j]].scored

\* C15: a Generate without predecessors builds one seed thought holding the
\* problem parameters, issues one prompt (one query), and holds as many
\* thoughts as the parser returned states for that prompt.
C15_RootGenerateSeeds ==
    (Returned("Generate") /\ self.num_predecessors = 0) =>
        /\ io.seeds = 1
        /\ io.queries = 1
        /\ Len(io.answers) = 1
        /\ Len(self.thoughts) = io.answers[1]
        /\ Len(heap) = Len(predecessor.thoughts) + 1 + io.answers[1]
        /\ dicts[heap[Len(predecessor.thoughts) + 1].state] = io.kwargs

C15_Witness ==
    /\ Returned("Generate")
    /\ self.num_predecessors = 0
    /\ io.answers[1] = MaxParse
    /\ ~IsEmpty(io.kwargs)

\* C16: a Generate with a predecessor (executed) that holds no thought
\* returns with no thought, no Thought built and no query made, and ends
\* with executed = TRUE.
C16_NoThoughtsNoWork ==
    (Ended("Generate") /\ self.num_predecessors > 0 /\ predecessor.executed
        /\ Len(PreviousThoughts) = 0) =>
        /\ io.outcome = "returned"
        /\ self.thoughts = << >>
        /\ io.queries = 0
        /\ io.seeds = 0
        /\ heap = << >>
        /\ self.executed

C16_Witness ==
    /\ Returned("Generate")
    /\ self.num_predecessors > 0
    /\ Len(PreviousThoughts) = 0
    /\ self.executed

\* the i-th thought of the operation is a copy of the i-th predecessor
\* thought: made from it, another id, an equal state map
CopyOfInput(i) ==
    LET c == heap[self.thoughts[i]]
        t == heap[PreviousThoughts[i]]
    IN  /\ c.source = PreviousThoughts[i]
        /\ c.id # t.id
        /\ dicts[c.state] = dicts[t.state]

\* C17: after Score has executed, in combined and in independent mode, its
\* thought list is as long as the list of predecessor thoughts, the i-th
\* thought is a copy of the i-th predecessor thought with the i-th score,
\* and every thought has scored = TRUE.
C17_ScoreCopiesAll ==
    Returned("Score") =>
        /\ Len(self.thoughts) = Len(PreviousThoughts)
        /\ \A i \in 1..Len(self.thoughts) :
              /\ CopyOfInput(i)
              /\ heap[self.thoughts[i]].score = io.answers[i]
              /\ heap[self.thoughts[i]].scored

\* C18: Aggregate executed with no predecessor thought, its predecessor
\* having produced nothing or there being no predecessor at all, returns
\* with no thought and without a query.
C18_AggregateNothing ==
    (Ended("Aggregate") /\ SelfCanBeExecuted /\ Len(PreviousThoughts) = 0) =>
        /\ io.outcome = "returned"
        /\ self.thoughts = << >>
        /\ io.queries = 0

\* C19: GroundTruth (wired behind an executed predecessor) returns whatever
\* the evaluator does, with one copy per predecessor thought, in order,
\* each with compared_to_ground_truth = TRUE and solved as the evaluator
\* said, FALSE where the evaluator raised.
C19_GroundTruthLabels ==
    (Ended("GroundTruth") /\ self.num_predecessors >= 1 /\ predecessor.executed) =>
        /\ io.outcome = "returned"
        /\ self.executed
        /\ Len(self.thoughts) = Len(PreviousThoughts)
        /\ \A i \in 1..Len(self.thoughts) :
              /\ CopyOfInput(i)
              /\ heap[self.thoughts[i]].compared_to_ground_truth
              /\ heap[self.thoughts[i]].solved = (io.answers[i] = "true")

C19_Witness ==
    /\ Returned("GroundTruth")
    /\ Len(self.thoughts) = 2
    /\ io.answers[1] = "raise"
    /\ io.answers[2] = "true"
    /\ heap[self.thoughts[2]].solved

\* C20: ValidateAndImprove with improve = TRUE and a validator that says
\* FALSE every time records exactly num_tries attempts per predecessor
\* thought.
C20_ExactlyNumTries ==
    (Returned("ValidateAndImprove") /\ self.improve /\ self.validate_function
        /\ self.num_tries >= 1
        /\ \A j \in 1..Len(io.answers) : ~io.answers[j]) =>
        \A j \in 1..Len(self.thoughts) : Len(self.thoughts[j]) = self.num_tries

\* the attempts of a sequence: the first is a copy of the input, every later
\* one a copy of the attempt before it
AttemptsChained(thought_list, input) ==
    \A k \in 1..Len(thought_list) :
        heap[thought_list[k]].source =
            (IF k = 1 THEN input ELSE thought_list[k - 1])

\* C21: after ValidateAndImprove has executed, every recorded attempt
\* sequence is non-empty, and get_thoughts returns one thought per
\* predecessor thought, in predecessor order: the attempt of that input's
\* sequence that was made last.
C21_LastAttemptExposed ==
    Returned("ValidateAndImprove") =>
        /\ Len(self.thoughts) = Len(PreviousThoughts)
        /\ \A i \in 1..Len(self.thoughts) :
              /\ Len(self.thoughts[i]) >= 1
              /\ AttemptsChained(self.thoughts[i], PreviousThoughts[i])
        /\ Len(ValidateAndImprove_get_thoughts) = Len(PreviousThoughts)
        /\ \A i \in 1..Len(PreviousThoughts) :
              LET t == ValidateAndImprove_get_thoughts[i]
              IN  /\ t \in SeqSet(self.thoughts[i])
                  /\ \A k \in 1..Len(self.thoughts[i]) :
                        heap[self.thoughts[i][k]].id <= heap[t].id
                  /\ \A j \in 1..Len(heap) : heap[j].source # t

C21_Witness ==
    /\ Returned("ValidateAndImprove")
    /\ Len(PreviousThoughts) = 2
    /\ Len(self.thoughts[1]) > 1
    /\ Len(self.thoughts[2]) = 1
    /\ ValidateAndImprove_get_thoughts[1] # self.thoughts[1][1]

\* C22: KeepValid (wired behind an executed predecessor) holds a copy of a
\* predecessor thought exactly when that thought has validated = FALSE or
\* valid = TRUE; a thought with validated = TRUE and valid = FALSE is
\* dropped; the copies stand in the order of the thoughts they were made of.
C22_KeepValidFilters ==
    (Ended("KeepValid") /\ self.num_predecessors >= 1 /\ predecessor.executed) =>
        /\ io.outcome = "returned"
        /\ KeptSources =
              { t \in SeqSet(PreviousThoughts) : ~heap[t].validated \/ heap[t].valid }
        /\ Len(self.thoughts) = Cardinality(KeptSources)
        /\ \A i \in 1..Len(self.thoughts) :
              LET c == heap[self.thoughts[i]]
              IN  /\ c.id # heap[c.source].id
                  /\ dicts[c.state] = dicts[heap[c.source].state]
                  /\ c.validated = heap[c.source].validated
                  /\ c.valid = heap[c.source].valid
        /\ \A i, j \in 1..Len(self.thoughts) :
              i < j => PositionIn(heap[self.thoughts[i]].source, PreviousThoughts)
                           < PositionIn(heap[self.thoughts[j]].source, PreviousThoughts)

C22_Witness ==
    /\ Returned("KeepValid")
    /\ Len(PreviousThoughts) = 2
    /\ heap[PreviousThoughts[1]].validated /\ ~heap[PreviousThoughts[1]].valid
    /\ ~heap[PreviousThoughts[2]].validated
    /\ Len(self.thoughts) = 1
    /\ heap[self.thoughts[1]].source = PreviousThoughts[2]

\* C23: the selector function is called on the full list of predecessor
\* thoughts; a seed thought built from the problem parameters stands in only
\* when the Selector has no predecessor; a Selector whose predecessor
\* produced no thought calls it on the empty list.
C23_SelectorArgument ==
    Returned("Selector") =>
        /\ self.num_predecessors = 0 =>
              /\ io.seeds = 1
              /\ Len(io.given) = 1
              /\ dicts[heap[io.given[1]].state] = io.kwargs
        /\ self.num_predecessors > 0 =>
              /\ io.seeds = 0
              /\ io.given = PreviousThoughts

Without(s, ps) == SelectSeq(s, LAMBDA x : ~InList(x, ps))

\* C25: an add_operation(op) call that returns changes no edge, appends op
\* to operations, adds op to roots exactly when op has no predecessors,
\* removes from leaves the predecessors of op that were there, and adds op
\* to leaves exactly when op has no successors.
C25_AddOperationBookkeeping ==
    (built.call = "add_operation" /\ built.outcome = "returned") =>
        /\ predecessors = built.predecessors
        /\ successors = built.successors
        /\ operations = Append(built.operations, built.op)
        /\ roots = IF Len(predecessors[built.op]) = 0
                   THEN Append(built.roots, built.op) ELSE built.roots
        /\ leaves = LET kept == Without(built.leaves, predecessors[built.op])
                    IN  IF Len(successors[built.op]) = 0
                        THEN Append(kept, built.op) ELSE kept

\* C26: add_operation of an operation with a predecessor on a graph without
\* operations fails, and the operation is then in none of operations, roots
\* and leaves.
C26_RejectedNotRegistered ==
    (built.call = "add_operation" /\ built.operations = << >>
        /\ Len(built.predecessors[built.op]) >= 1) =>
        /\ built.outcome = "fatal"
        /\ ~InList(built.op, operations)
        /\ ~InList(built.op, roots)
        /\ ~InList(built.op, leaves)

\* C27: for all operations A and B, B occurs in A.successors as often as A
\* occurs in B.predecessors, whatever add_predecessor, add_successor and
\* append_operation calls were made.
C27_EdgesBidirectional ==
    \A A, B \in Ops : Count(B, successors[A]) = Count(A, predecessors[B])

C27_Witness ==
    \E A, B \in Ops :
        /\ A # B
        /\ Count(B, successors[A]) = 2
        /\ Count(A, predecessors[B]) = 2

\* the p-th thought Generate made: the seed thought is the first Thought
\* constructed, the generated ones follow it
GeneratedThought(p) == p + 1

\* C28: a run of Generate(1, 3) -> Score(1, False, fn) -> KeepBestN(1, True)
\* in which at least one state was parsed ends with the leaf holding exactly
\* one thought: a copy, with its score and state, of the first generated
\* thought whose score is the highest; for text lengths 3, 10, 7 the one of
\* length 10.
C28_PipelineKeepsBest ==
    (Stage = 3 /\ Returned("KeepBestN") /\ Len(PreviousThoughts) >= 1) =>
        /\ Len(self.thoughts) = 1
        /\ LET kept == heap[self.thoughts[1]]
               s    == kept.source
               p    == PositionIn(s, PreviousThoughts)
           IN  /\ InList(s, PreviousThoughts)
               /\ \A q \in 1..Len(PreviousThoughts) :
                     /\ heap[PreviousThoughts[q]].score <= heap[s].score
                     /\ heap[PreviousThoughts[q]].score = heap[s].score => p <= q
               /\ kept.score = heap[s].score
               /\ kept.scored
               /\ heap[s].source = GeneratedThought(p)
               /\ dicts[kept.state] = dicts[heap[GeneratedThought(p)].state]

C28_Witness ==
    /\ Stage = 3
    /\ Returned("KeepBestN")
    /\ [q \in 1..Len(PreviousThoughts) |-> heap[PreviousThoughts[q]].score]
          = << 3, 10, 7 >>
    /\ Len(self.thoughts) = 1
    /\ heap[self.thoughts[1]].score = 10
    /\ heap[heap[self.thoughts[1]].source].source = GeneratedThought(2)

\* C29: KeepBestN and Aggregate, the operations whose result depends on the
\* scores of the predecessor thoughts, fail when they are executed over a
\* predecessor thought that has scored = FALSE.
C29_UnscoredIsFatal ==
    ((Ended("KeepBestN") \/ Ended("Aggregate"))
        /\ self.num_predecessors >= 1 /\ predecessor.executed
        /\ \E i \in 1..Len(PreviousThoughts) : ~heap[PreviousThoughts[i]].scored) =>
        /\ io.outcome = "fatal"
        /\ ~self.executed
        /\ self.thoughts = << >>

\* C30: every attempt sequence of ValidateAndImprove ends at the first
\* attempt that meets a stop condition: with improve = FALSE it holds one
\* attempt, valid or not; with improve = TRUE no attempt before the last is
\* valid and it holds at most num_tries attempts.
C30_StopsAtFirstCondition ==
    (Returned("ValidateAndImprove") /\ self.num_tries >= 1) =>
        \A j \in 1..Len(self.thoughts) :
            LET thought_list == self.thoughts[j]
            IN  /\ ~self.improve => Len(thought_list) = 1
                /\ self.improve =>
                      /\ \A k \in 1..(Len(thought_list) - 1) :
                            ~heap[thought_list[k]].valid
                      /\ Len(thought_list) <= self.num_tries

\* C32: Score executed without a predecessor operation fails; executed stays
\* FALSE, its thought list stays empty and no Thought is made.
C32_ScoreNeedsPredecessor ==
    (Ended("Score") /\ self.num_predecessors = 0) =>
        /\ io.outcome = "fatal"
        /\ ~self.executed
        /\ self.thoughts = << >>
        /\ Len(heap) = Len(predecessor.thoughts)

C32_Witness ==
    /\ Ended("Score")
    /\ self.num_predecessors = 0
    /\ io.outcome = "fatal"
    /\ self.combined_scoring
    /\ Len(heap) = MaxPrev

\* the predecessor thoughts whose state map holds key
Holders(key) ==
    { i \in 1..Len(PreviousThoughts) :
        dicts[heap[PreviousThoughts[i]].state][key] # Absent }

\* the one of them with the highest score, the latest of those
Winner(key) ==
    CHOOSE i \in Holders(key) :
        \A j \in Holders(key) :
            \/ heap[PreviousThoughts[j]].score < heap[PreviousThoughts[i]].score
            \/ heap[PreviousThoughts[j]].score = heap[PreviousThoughts[i]].score
                  /\ j <= i

\* C31: Aggregate executed over predecessor thoughts holds one thought per
\* parsed state, exactly one when the parser returned a single map; in the
\* state of the m-th, a key of the m-th parsed state has the parsed value,
\* any other key the value of the highest-scored predecessor thought that
\* holds it (the latest of equally scored ones), and is absent otherwise.
C31_AggregateMerges ==
    (Returned("Aggregate") /\ Len(PreviousThoughts) >= 1) =>
        /\ Len(self.thoughts) =
              (IF io.answers[1][1] = "dict" THEN 1 ELSE io.answers[1][2])
        /\ \A m \in 1..Len(self.thoughts) : \A key \in Keys :
              dicts[heap[self.thoughts[m]].state][key] =
                  (IF Parsed(m)[key] # Absent THEN Parsed(m)[key]
                   ELSE IF Holders(key) = {} THEN Absent
                   ELSE dicts[heap[PreviousThoughts[Winner(key)]].state][key])

C31_Witness ==
    /\ Returned("Aggregate")
    /\ Len(PreviousThoughts) = 2
    /\ heap[PreviousThoughts[1]].score > heap[PreviousThoughts[2]].score
    /\ io.answers[1][1] = "dict"
    /\ Len(self.thoughts) = 1
    /\ dicts[heap[self.thoughts[1]].state] = [k \in Keys |-> "x"]

\* C35: no step of Controller.run, in a run that completes or in one that
\* is aborted, changes graph.operations, graph.roots, graph.leaves or the
\* predecessor or successor list of any operation.
C35_RunKeepsGraph == [][Run => UNCHANGED << graphVars, edgeVars >>]_vars

C35_Witness ==
    /\ pc = "done"
    /\ Len(operations) = 2
    /\ Len(started) >= 2
    /\ NumEdges >= 1

\* The order in which a run over the graph executes operations when none was
\* executed before, computed from the graph alone: q is the queue, ex the
\* flags; the head runs, then its successors that are ready join the tail
\* in successor-list order.
RECURSIVE Schedule(_, _)
Schedule(q, ex) ==
    IF q = << >> THEN << >>
    ELSE LET o   == Head(q)
             ex1 == [ex EXCEPT ![o] = TRUE]
         IN  << o >> \o Schedule(Tail(q) \o SelectSeq(successors[o],
                                                      LAMBDA s : can_be_executed(ex1, s)),
                                 ex1)

FirstSchedule ==
    LET none == [o \in Ops |-> FALSE]
    IN  Schedule(SelectSeq(operations, LAMBDA o : can_be_executed(none, o)), none)

IsPrefix(s, t) == Len(s) <= Len(t) /\ SubSeq(t, 1, Len(s)) = s

AllWiredRegistered ==
    \A o \in Ops :
        (Len(predecessors[o]) + Len(successors[o]) > 0) => InList(o, operations)

\* C33: once every wired operation is registered, roots holds exactly the
\* registered operations without predecessors and leaves exactly the
\* registered operations without successors.
C33_RootsAndLeavesExact ==
    AllWiredRegistered =>
        /\ { roots[i] : i \in 1..Len(roots) } =
              { o \in Ops : InList(o, operations) /\ Len(predecessors[o]) = 0 }
        /\ { leaves[i] : i \in 1..Len(leaves) } =
              { o \in Ops : InList(o, operations) /\ Len(successors[o]) = 0 }

\* every successor of a registered operation is registered
Closed ==
    \A i \in 1..Len(operations) : \A j \in 1..Len(successors[operations[i]]) :
        InList(successors[operations[i]][j], operations)

\* the model cannot construct another Thought: Thought._ids is at its bound
IdsExhausted ==
    /\ pc = "executing"
    /\ \A ks \in ParseCounts(current_operation) :
          GenerateIds(current_operation, ks) > MaxThoughts

PredecessorThoughtsKept ==
    \A j \in 1..Len(predecessor.thoughts) :
        LET i == predecessor.thoughts[j]
        IN  /\ heap'[i] = heap[i]
            /\ enhanced'[i] = enhanced[i]
            /\ dicts'[heap[i].state] = dicts[heap[i].state]

\* C36: no step of an enhanced operation changes a thought held by its
\* predecessor, and after it no Thought object is in the thought lists of
\* both the operation and its predecessor.
C36_ThoughtsOwned ==
    [][/\ PredecessorThoughtsKept
       /\ SeqSet(self'.thoughts) \cap SeqSet(predecessor'.thoughts) = {}]_vars

\* C37: execute called on a BaseOperation-derived operation whose
\* predecessor has executed = FALSE fails, and the operation's executed
\* flag stays FALSE.
C37_ReadinessIsHard ==
    (io.call = "execute" /\ self.kind \in BaseKinds
        /\ self.num_predecessors > 0 /\ ~predecessor.executed) =>
        (io.outcome = "fatal" /\ ~self.executed)

\* every operation of the graph was executed once in the run
EachExecutedOnce ==
    /\ Len(started) = Len(operations)
    /\ \A i \in 1..Len(operations) : InList(operations[i], started)

\* C39: every event of a tracked run is recorded on the entry of the
\* operation the tracker was called with, and after a run that completed
\* and executed every operation once, every entry is completed and holds
\* the thought count of the operation at its index of graph.operations.
C39_EventsOnOwnEntry ==
    Tracked =>
        /\ \A k \in 1..Len(tracker.execution_events) :
              operations[tracker.execution_events[k].operation_id] =
                  tracker.execution_events[k].op
        /\ (pc = "done" /\ EachExecutedOnce) =>
              \A i \in 1..Len(tracker.operations_data) :
                 /\ tracker.operations_data[i].status = "completed"
                 /\ tracker.operations_data[i].thoughts_generated =
                        Len(thoughts[operations[i]])

\* the buffer and the tracker of an instance, once set, stay the same objects
NeverReplaced ==
    \A o \in 1..Len(emitter.objects) :
        /\ emitter.objects[o].buffer # 0 =>
              emitter'.objects[o].buffer = emitter.objects[o].buffer
        /\ emitter.objects[o].tracker # 0 =>
              emitter'.objects[o].tracker = emitter.objects[o].tracker

\* all calls that returned gave the same instance
SameInstance ==
    \A t, u \in Threads :
        (emitter.threads[t].result # 0 /\ emitter.threads[u].result # 0) =>
            emitter.threads[t].result = emitter.threads[u].result

\* C40: under every interleaving of EventEmitter() and get_emitter() calls
\* all callers get the same instance, and the buffer and the tracker of the
\* instance are never replaced once they are set.
C40_InitialisedOnce == [][SameInstance' /\ NeverReplaced]_vars
====
